---- MODULE Spec2Model ----
(***************************************************************************)
(* A model of go-gql2j: the GraphQL-to-Java type mapper, the per-type      *)
(* generators and the generation orchestrator.                             *)
(*                                                                         *)
(* Go values are modelled as follows.  A pointer is a sequence of length 0 *)
(* (nil) or 1.  A Go map is a function whose DOMAIN is the key set.  A     *)
(* string is a TLA+ string and + is \o.  An error value is a string, the   *)
(* nil error being NoError.                                                *)
(***************************************************************************)
EXTENDS Naturals, Sequences, FiniteSets, TLC

VARIABLES
    config,     \* the *config.Config shared by the mapper and the generator
    tm,         \* the TypeMapper built from config by NewTypeMapper
    op,         \* the operation that ran last
    typeRef,    \* the argument of the last MapType call (a pointer)
    mapRet,     \* what the last MapType call returned: [res, err]
    schema,     \* the schema's types in the order Generate ranges over them
    idx,        \* number of types Generate has processed so far
    files,      \* Generate: the files collected so far
    errs,       \* Generate: the error collection
    genRet,     \* what the last Generate or GenerateType call returned
    typeName,   \* the type name argument of the last GenerateType call
    arg,        \* the arguments of the last call of any other function
    ret         \* what that call returned

vars == <<config, tm, op, typeRef, mapRet, schema, idx, files, errs, genRet,
          typeName, arg, ret>>

----------------------------------------------------------------------------
(* Bounds of the model.                                                    *)

\* deepest nesting of list wrappers in an enumerated type reference
MaxListDepth == 2

\* most fields of an enumerated object, input or interface type
MaxFields == 2

\* most values of an enumerated enum type
MaxEnumValues == 3

\* most types of a schema handed to Generate
MaxTypes == 3
MaxDirectives == 2
MaxNameLen == 3

----------------------------------------------------------------------------
(* A local binding: Body applied to the value of v, v evaluated once.      *)

With(v, Body(_)) == CHOOSE r \in {Body(x) : x \in {v}} : TRUE

----------------------------------------------------------------------------
(* internal/errors: the error kinds the modelled code can return.          *)

NoError == "nil"
TypeMappingError == "TYPEMAP"
GenerateError == "GENERATE"

----------------------------------------------------------------------------
(* internal/typemap/scalars.go                                             *)

ScalarInfo(javaType, primitiveType, imports) ==
    [JavaType |-> javaType, PrimitiveType |-> primitiveType, Imports |-> imports]

BuiltinScalars ==
    ("String"  :> ScalarInfo("String", "", <<>>)) @@
    ("Int"     :> ScalarInfo("Integer", "int", <<>>)) @@
    ("Float"   :> ScalarInfo("Double", "double", <<>>)) @@
    ("Boolean" :> ScalarInfo("Boolean", "boolean", <<>>)) @@
    ("ID"      :> ScalarInfo("String", "", <<>>))

CommonScalars ==
    ("DateTime"   :> ScalarInfo("LocalDateTime", "", <<"java.time.LocalDateTime">>)) @@
    ("Date"       :> ScalarInfo("LocalDate", "", <<"java.time.LocalDate">>)) @@
    ("Time"       :> ScalarInfo("LocalTime", "", <<"java.time.LocalTime">>)) @@
    ("Instant"    :> ScalarInfo("Instant", "", <<"java.time.Instant">>)) @@
    ("UUID"       :> ScalarInfo("UUID", "", <<"java.util.UUID">>)) @@
    ("BigDecimal" :> ScalarInfo("BigDecimal", "", <<"java.math.BigDecimal">>)) @@
    ("BigInteger" :> ScalarInfo("BigInteger", "", <<"java.math.BigInteger">>)) @@
    ("Long"       :> ScalarInfo("Long", "long", <<>>)) @@
    ("Short"      :> ScalarInfo("Short", "short", <<>>)) @@
    ("Byte"       :> ScalarInfo("Byte", "byte", <<>>)) @@
    ("Char"       :> ScalarInfo("Character", "char", <<>>)) @@
    ("JSON"       :> ScalarInfo("JsonNode", "", <<"com.fasterxml.jackson.databind.JsonNode">>)) @@
    ("JSONObject" :> ScalarInfo("ObjectNode", "", <<"com.fasterxml.jackson.databind.node.ObjectNode">>)) @@
    ("JSONArray"  :> ScalarInfo("ArrayNode", "", <<"com.fasterxml.jackson.databind.node.ArrayNode">>)) @@
    ("URL"        :> ScalarInfo("URL", "", <<"java.net.URL">>)) @@
    ("URI"        :> ScalarInfo("URI", "", <<"java.net.URI">>))

PrimitiveToBoxed ==
    ("int" :> "Integer") @@ ("long" :> "Long") @@ ("short" :> "Short") @@
    ("byte" :> "Byte") @@ ("float" :> "Float") @@ ("double" :> "Double") @@
    ("boolean" :> "Boolean") @@ ("char" :> "Character")

IsPrimitive(javaType) == javaType \in DOMAIN PrimitiveToBoxed

BoxType(javaType) ==
    IF javaType \in DOMAIN PrimitiveToBoxed THEN PrimitiveToBoxed[javaType]
    ELSE javaType

CollectionInfo(interface, implementation, imports) ==
    [Interface |-> interface, Implementation |-> implementation, Imports |-> imports]

CollectionTypes ==
    ("List"       :> CollectionInfo("List", "ArrayList", <<"java.util.List", "java.util.ArrayList">>)) @@
    ("Set"        :> CollectionInfo("Set", "HashSet", <<"java.util.Set", "java.util.HashSet">>)) @@
    ("Collection" :> CollectionInfo("Collection", "ArrayList", <<"java.util.Collection", "java.util.ArrayList">>)) @@
    ("SortedSet"  :> CollectionInfo("SortedSet", "TreeSet", <<"java.util.SortedSet", "java.util.TreeSet">>)) @@
    ("LinkedList" :> CollectionInfo("List", "LinkedList", <<"java.util.List", "java.util.LinkedList">>))

GetCollectionInfo(collectionType) ==
    IF collectionType \in DOMAIN CollectionTypes THEN CollectionTypes[collectionType]
    ELSE CollectionTypes["List"]

FormatCollectionType(collectionType, elementType) ==
    GetCollectionInfo(collectionType).Interface \o "<" \o elementType \o ">"

GetOptionalInfo == [Type |-> "Optional", Imports |-> <<"java.util.Optional">>]

FormatOptionalType(elementType) == "Optional<" \o BoxType(elementType) \o ">"

----------------------------------------------------------------------------
(* internal/parser: the schema model.                                      *)

TypeKindObject == "OBJECT"
TypeKindInterface == "INTERFACE"
TypeKindInputObject == "INPUT_OBJECT"
TypeKindEnum == "ENUM"
TypeKindUnion == "UNION"
TypeKindScalar == "SCALAR"

DirectiveSkip == "skip"
DirectiveJavaName == "javaName"
DirectiveJavaType == "javaType"
DirectiveDeprecated == "deprecated"
DirectiveAnnotation == "annotation"
DirectiveConstraint == "constraint"
DirectiveLombok == "lombok"
DirectiveCollection == "collection"

\* A directive argument is a dynamically typed value: a string or a list of
\* strings here ([kind, str, list]).
StringValue(s) == [kind |-> "string", str |-> s, list |-> <<>>]
ListValue(l) == [kind |-> "list", str |-> "", list |-> l]

\* an int64 and a bool argument value; a float64 one, by its integer part
IntValue(n) == [kind |-> "int", num |-> n]
FloatValue(whole) == [kind |-> "float", num |-> whole]
BoolValue(b) == [kind |-> "bool", bool |-> b]

DirectiveDef(name, arguments) == [Name |-> name, Arguments |-> arguments]

\* A directive without arguments has the empty argument map.
NoArguments == [a \in {} |-> StringValue("")]

\* TypeRef: Name for named types, Elem (a pointer) for list types.
TypeRef(name, elem, nonNull) == [Name |-> name, Elem |-> elem, NonNull |-> nonNull]

NamedRef(name, nonNull) == TypeRef(name, <<>>, nonNull)

ListRef(elem, nonNull) == TypeRef("", <<elem>>, nonNull)

IsList(t) == t.Elem # <<>>

RECURSIVE NamedType(_)
NamedType(t) == IF t.Elem # <<>> THEN NamedType(t.Elem[1]) ELSE t.Name

FieldDef(name, type, directives) ==
    [Name |-> name, Type |-> type, Directives |-> directives]

EnumValueDef(name, directives) == [Name |-> name, Directives |-> directives]

TypeDef(name, kind, fields, enumValues, interfaces, directives) ==
    [Name |-> name, Kind |-> kind, Fields |-> fields, EnumValues |-> enumValues,
     Interfaces |-> interfaces, Directives |-> directives]

GetArgumentString(d, name) ==
    IF name \in DOMAIN d.Arguments /\ d.Arguments[name].kind = "string"
    THEN d.Arguments[name].str
    ELSE ""

GetArgumentStringSlice(d, name) ==
    IF name \in DOMAIN d.Arguments /\ d.Arguments[name].kind = "list"
    THEN d.Arguments[name].list
    ELSE <<>>

\* GetArgumentInt returns (value, ok): <<value>> when ok, <<>> otherwise
GetArgumentInt(d, name) ==
    IF name \in DOMAIN d.Arguments /\ d.Arguments[name].kind \in {"int", "float"}
    THEN <<d.Arguments[name].num>>
    ELSE <<>>

\* GetArgumentBool returns (value, ok): <<value>> when ok, <<>> otherwise
GetArgumentBool(d, name) ==
    IF name \in DOMAIN d.Arguments /\ d.Arguments[name].kind = "bool"
    THEN <<d.Arguments[name].bool>>
    ELSE <<>>

\* The extractors return a pointer: <<>> when the directive is absent.
ExtractSkipDirective(directives) ==
    IF \E i \in 1..Len(directives) : directives[i].Name = DirectiveSkip
    THEN <<[Applied |-> TRUE]>>
    ELSE <<>>

\* The first directive of the given name whose string argument key is not
\* empty, as an index into directives; 0 when there is none.
FirstWithArgument(directives, name, key) ==
    LET hits == {i \in 1..Len(directives) :
                    /\ directives[i].Name = name
                    /\ GetArgumentString(directives[i], key) # ""}
    IN IF hits = {} THEN 0 ELSE CHOOSE i \in hits : \A j \in hits : i <= j

ExtractJavaNameDirective(directives) ==
    LET i == FirstWithArgument(directives, DirectiveJavaName, "name")
    IN IF i = 0 THEN <<>>
       ELSE <<[Name |-> GetArgumentString(directives[i], "name")]>>

ExtractJavaTypeDirective(directives) ==
    LET i == FirstWithArgument(directives, DirectiveJavaType, "type")
    IN IF i = 0 THEN <<>>
       ELSE <<[Type |-> GetArgumentString(directives[i], "type"),
               Imports |-> GetArgumentStringSlice(directives[i], "imports")]>>

ExtractCollectionDirective(directives) ==
    LET i == FirstWithArgument(directives, DirectiveCollection, "type")
    IN IF i = 0 THEN <<>>
       ELSE <<[Type |-> GetArgumentString(directives[i], "type")]>>

----------------------------------------------------------------------------
(* internal/config: the configuration values the modelled code reads.      *)

ValidationJakarta == "jakarta"
ValidationJavax == "javax"
NullableWrapper == "wrapper"
NullableOptional == "optional"
NullableAnnotation == "annotation"

ScalarMapping(javaType, imports) == [JavaType |-> javaType, Imports |-> imports]

----------------------------------------------------------------------------
(* internal/typemap/mapper.go                                              *)

MapResult(javaType, imports, isPrimitive, isCollection, isOptional, elementType) ==
    [JavaType |-> javaType, Imports |-> imports, IsPrimitive |-> isPrimitive,
     IsCollection |-> isCollection, IsOptional |-> isOptional,
     ElementType |-> elementType]

\* &MapResult{JavaType: j, Imports: i, IsPrimitive: p}, the other fields zero
NamedResult(javaType, imports, isPrimitive) ==
    MapResult(javaType, imports, isPrimitive, FALSE, FALSE, "")

\* the nil *MapResult that accompanies an error
NilResult == MapResult("", <<>>, FALSE, FALSE, FALSE, "")

Ok(res) == [res |-> res, err |-> NoError]
Fail(err) == [res |-> NilResult, err |-> err]

\* customScalars keeps JavaType and Imports of each configured mapping and
\* leaves PrimitiveType empty.
NewTypeMapper(cfg) ==
    [config |-> cfg,
     customScalars |->
        [name \in DOMAIN cfg.TypeMappings.Scalars |->
            ScalarInfo(cfg.TypeMappings.Scalars[name].JavaType, "",
                       cfg.TypeMappings.Scalars[name].Imports)],
     builtinScalars |-> BuiltinScalars,
     schemaTypes |-> <<>>]

\* getJavaTypeName without the look at the rename directive
getJavaTypeNameUndirected(m, td) ==
    IF td.Kind = TypeKindInterface
    THEN (IF m.config.Java.Naming.InterfacePrefix # ""
          THEN m.config.Java.Naming.InterfacePrefix \o td.Name ELSE td.Name)
    ELSE IF td.Kind \in {TypeKindObject, TypeKindInputObject}
    THEN (IF m.config.Java.Naming.ClassSuffix # ""
          THEN td.Name \o m.config.Java.Naming.ClassSuffix ELSE td.Name)
    ELSE td.Name

getJavaTypeName(m, td) ==
    LET javaName == ExtractJavaNameDirective(td.Directives)
    IN IF javaName # <<>> THEN javaName[1].Name
       ELSE IF td.Kind = TypeKindInterface
            THEN (IF m.config.Java.Naming.InterfacePrefix # ""
                  THEN m.config.Java.Naming.InterfacePrefix \o td.Name ELSE td.Name)
       ELSE IF td.Kind \in {TypeKindObject, TypeKindInputObject}
            THEN (IF m.config.Java.Naming.ClassSuffix # ""
                  THEN td.Name \o m.config.Java.Naming.ClassSuffix ELSE td.Name)
       ELSE td.Name

\* mapNamedType with the built-in branch handing out the primitive form
mapNamedTypePrimitiveFirst(m, name) ==
    IF name \in DOMAIN m.customScalars
    THEN Ok(NamedResult(m.customScalars[name].JavaType,
                        m.customScalars[name].Imports,
                        m.customScalars[name].PrimitiveType # ""))
    ELSE IF name \in DOMAIN m.builtinScalars
    THEN Ok(NamedResult(IF m.builtinScalars[name].PrimitiveType # ""
                        THEN m.builtinScalars[name].PrimitiveType
                        ELSE m.builtinScalars[name].JavaType,
                        m.builtinScalars[name].Imports, FALSE))
    ELSE IF name \in DOMAIN CommonScalars
    THEN Ok(NamedResult(CommonScalars[name].JavaType,
                        CommonScalars[name].Imports, FALSE))
    ELSE IF name \in DOMAIN m.schemaTypes
    THEN Ok(NamedResult(getJavaTypeName(m, m.schemaTypes[name]), <<>>, FALSE))
    ELSE Ok(NamedResult(name, <<>>, FALSE))

mapNamedType(m, name) ==
    IF name \in DOMAIN m.customScalars
    THEN Ok(NamedResult(m.customScalars[name].JavaType,
                        m.customScalars[name].Imports,
                        m.customScalars[name].PrimitiveType # ""))
    ELSE IF name \in DOMAIN m.builtinScalars
    THEN Ok(NamedResult(m.builtinScalars[name].JavaType,
                        m.builtinScalars[name].Imports, FALSE))
    ELSE IF name \in DOMAIN CommonScalars
    THEN Ok(NamedResult(CommonScalars[name].JavaType,
                        CommonScalars[name].Imports, FALSE))
    ELSE IF name \in DOMAIN m.schemaTypes
    THEN Ok(NamedResult(getJavaTypeName(m, m.schemaTypes[name]), <<>>, FALSE))
    ELSE Ok(NamedResult(name, <<>>, FALSE))

applyNullability(m, result) ==
    IF m.config.Java.NullableHandling = NullableOptional
    THEN [result EXCEPT
            !.JavaType = FormatOptionalType(IF result.IsPrimitive
                                            THEN BoxType(result.JavaType)
                                            ELSE result.JavaType),
            !.Imports = result.Imports \o GetOptionalInfo.Imports,
            !.IsOptional = TRUE,
            !.IsPrimitive = FALSE]
    ELSE \* NullableAnnotation, NullableWrapper and default do the same
         IF result.IsPrimitive
         THEN [result EXCEPT !.JavaType = BoxType(result.JavaType),
                             !.IsPrimitive = FALSE]
         ELSE result

\* mapTypeInternal, lines 72-91: the collection built around a mapped element
mapListType(m, elemResult) ==
    LET elemType == IF elemResult.IsPrimitive THEN BoxType(elemResult.JavaType)
                    ELSE elemResult.JavaType
        collectionType == m.config.Java.CollectionType
    IN MapResult(FormatCollectionType(collectionType, elemType),
                 GetCollectionInfo(collectionType).Imports \o elemResult.Imports,
                 FALSE, TRUE, FALSE, elemType)

\* usePrimitive without the test of the reference's non-null flag
usePrimitiveAnyNullability(m, t, topLevel, result) ==
    IF /\ topLevel
       /\ t.Name \in DOMAIN m.builtinScalars
       /\ m.builtinScalars[t.Name].PrimitiveType # ""
    THEN [result EXCEPT !.JavaType = m.builtinScalars[t.Name].PrimitiveType,
                        !.IsPrimitive = TRUE]
    ELSE result

\* usePrimitive substituting the primitive for nullable references
usePrimitiveOnNullable(m, t, topLevel, result) ==
    IF /\ topLevel
       /\ ~t.NonNull
       /\ t.Name \in DOMAIN m.builtinScalars
       /\ m.builtinScalars[t.Name].PrimitiveType # ""
    THEN [result EXCEPT !.JavaType = m.builtinScalars[t.Name].PrimitiveType,
                        !.IsPrimitive = TRUE]
    ELSE result

\* mapTypeInternal, lines 109-117: primitives for non-null built-in scalars
usePrimitive(m, t, topLevel, result) ==
    IF /\ topLevel
       /\ t.NonNull
       /\ t.Name \in DOMAIN m.builtinScalars
       /\ m.builtinScalars[t.Name].PrimitiveType # ""
    THEN [result EXCEPT !.JavaType = m.builtinScalars[t.Name].PrimitiveType,
                        !.IsPrimitive = TRUE]
    ELSE result

\* mapTypeInternal, lines 94-119: a named reference
mapNamedRef(m, t, topLevel) ==
    LET named == mapNamedType(m, t.Name)
    IN IF named.err # NoError THEN Fail(TypeMappingError)
       ELSE LET result == IF topLevel /\ ~t.NonNull
                          THEN applyNullability(m, named.res)
                          ELSE named.res
            IN Ok(usePrimitive(m, t, topLevel, result))

RECURSIVE mapTypeInternal(_, _, _)
mapTypeInternal(m, t, topLevel) ==
    IF IsList(t)
    THEN LET elem == mapTypeInternal(m, t.Elem[1], FALSE)
         IN IF elem.err # NoError THEN Fail(TypeMappingError)
            ELSE Ok(mapListType(m, elem.res))
    ELSE mapNamedRef(m, t, topLevel)

\* MapType takes a pointer: the nil reference maps to Object.
MapType(m, ref) ==
    IF ref = <<>> THEN Ok(NamedResult("Object", <<>>, FALSE))
    ELSE mapTypeInternal(m, ref[1], TRUE)

getElementImports(m, elementType) ==
    IF elementType \in DOMAIN m.customScalars
    THEN m.customScalars[elementType].Imports
    ELSE IF elementType \in DOMAIN CommonScalars
    THEN CommonScalars[elementType].Imports
    ELSE <<>>

\* MapFieldType with the collection override appending to the base imports
MapFieldTypeKeepImports(m, field) ==
    LET javaType == ExtractJavaTypeDirective(field.Directives)
        collectionOverride == ExtractCollectionDirective(field.Directives)
        mapped == MapType(m, field.Type)
    IN IF javaType # <<>>
       THEN Ok(NamedResult(javaType[1].Type, javaType[1].Imports, FALSE))
       ELSE IF mapped.err # NoError THEN Fail(mapped.err)
       ELSE IF collectionOverride # <<>> /\ mapped.res.IsCollection
       THEN Ok([mapped.res EXCEPT
                  !.JavaType = FormatCollectionType(collectionOverride[1].Type,
                                                    mapped.res.ElementType),
                  !.Imports = mapped.res.Imports
                              \o GetCollectionInfo(collectionOverride[1].Type).Imports])
       ELSE mapped

\* MapFieldType with the collection override looked at before the custom type
MapFieldTypeCollectionFirst(m, field) ==
    LET javaType == ExtractJavaTypeDirective(field.Directives)
        collectionOverride == ExtractCollectionDirective(field.Directives)
        mapped == MapType(m, field.Type)
    IN IF collectionOverride # <<>> /\ mapped.res.IsCollection
       THEN Ok([mapped.res EXCEPT
                  !.JavaType = FormatCollectionType(collectionOverride[1].Type,
                                                    mapped.res.ElementType),
                  !.Imports = GetCollectionInfo(collectionOverride[1].Type).Imports
                              \o getElementImports(m, mapped.res.ElementType)])
       ELSE IF javaType # <<>>
       THEN Ok(NamedResult(javaType[1].Type, javaType[1].Imports, FALSE))
       ELSE mapped

MapFieldType(m, field) ==
    LET javaType == ExtractJavaTypeDirective(field.Directives)
        collectionOverride == ExtractCollectionDirective(field.Directives)
        mapped == MapType(m, field.Type)
    IN IF javaType # <<>>
       THEN Ok(NamedResult(javaType[1].Type, javaType[1].Imports, FALSE))
       ELSE IF mapped.err # NoError THEN Fail(mapped.err)
       ELSE IF collectionOverride # <<>> /\ mapped.res.IsCollection
       THEN Ok([mapped.res EXCEPT
                  !.JavaType = FormatCollectionType(collectionOverride[1].Type,
                                                    mapped.res.ElementType),
                  !.Imports = GetCollectionInfo(collectionOverride[1].Type).Imports
                              \o getElementImports(m, mapped.res.ElementType)])
       ELSE mapped

----------------------------------------------------------------------------
(* internal/generator: naming.  Strings are sequences of characters.       *)

LowerLetters == "abcdefghijklmnopqrstuvwxyz"
UpperLetters == "ABCDEFGHIJKLMNOPQRSTUVWXYZ"

\* the position of the one-character string c in letters, 0 if absent
LetterIndex(letters, c) ==
    With(c, LAMBDA ch :
        LET hits == {i \in 1..Len(letters) : SubSeq(letters, i, i) = ch}
        IN IF hits = {} THEN 0 ELSE CHOOSE i \in hits : TRUE)

IsUpper(c) == LetterIndex(UpperLetters, c) # 0

ToLowerChar(c) ==
    With(LetterIndex(UpperLetters, c), LAMBDA i :
        IF i = 0 THEN c ELSE SubSeq(LowerLetters, i, i))

ToUpperChar(c) ==
    With(LetterIndex(LowerLetters, c), LAMBDA i :
        IF i = 0 THEN c ELSE SubSeq(UpperLetters, i, i))

RECURSIVE ToLower(_)
ToLower(s) ==
    With(s, LAMBDA str :
        IF str = "" THEN ""
        ELSE ToLowerChar(SubSeq(str, 1, 1)) \o ToLower(SubSeq(str, 2, Len(str))))

HasPrefix(s, prefix) ==
    With(s, LAMBDA str :
        Len(str) >= Len(prefix) /\ SubSeq(str, 1, Len(prefix)) = prefix)

Contains(s, c) == \E i \in 1..Len(s) : SubSeq(s, i, i) = c

\* strings.Split(s, sep) for a one-character separator
RECURSIVE Split(_, _)
Split(s, sep) ==
    With(s, LAMBDA str :
        With({i \in 1..Len(str) : SubSeq(str, i, i) = sep}, LAMBDA hits :
            IF hits = {} THEN <<str>>
            ELSE With(CHOOSE k \in hits : \A j \in hits : k <= j, LAMBDA i :
                     <<SubSeq(str, 1, i - 1)>>
                     \o Split(SubSeq(str, i + 1, Len(str)), sep))))

capitalizeFirst(s) ==
    With(s, LAMBDA str :
        IF str = "" THEN str
        ELSE ToUpperChar(SubSeq(str, 1, 1)) \o SubSeq(str, 2, Len(str)))

RECURSIVE CamelTail(_)
CamelTail(parts) ==
    With(parts, LAMBDA ps :
        IF ps = <<>> THEN ""
        ELSE (IF Head(ps) # "" THEN capitalizeFirst(ToLower(Head(ps))) ELSE "")
             \o CamelTail(Tail(ps)))

toCamelCase(s) ==
    With(s, LAMBDA str :
        IF str = "" THEN str
        ELSE IF Contains(str, "_")
        THEN With(Split(str, "_"), LAMBDA parts :
                 ToLower(parts[1]) \o CamelTail(Tail(parts)))
        ELSE ToLowerChar(SubSeq(str, 1, 1)) \o SubSeq(str, 2, Len(str)))

RECURSIVE SnakeFrom(_, _)
SnakeFrom(s, i) ==
    IF i > Len(s) THEN ""
    ELSE With(SubSeq(s, i, i), LAMBDA c :
             (IF IsUpper(c)
              THEN (IF i > 1 THEN "_" ELSE "") \o ToLowerChar(c)
              ELSE c)) \o SnakeFrom(s, i + 1)

toSnakeCase(s) == With(s, LAMBDA str : IF str = "" THEN str ELSE SnakeFrom(str, 1))

JavaKeywords ==
    {"abstract", "assert", "boolean", "break", "byte", "case", "catch", "char",
     "class", "const", "continue", "default", "do", "double", "else", "enum",
     "extends", "final", "finally", "float", "for", "goto", "if", "implements",
     "import", "instanceof", "int", "interface", "long", "native", "new",
     "package", "private", "protected", "public", "return", "short", "static",
     "strictfp", "super", "switch", "synchronized", "this", "throw", "throws",
     "transient", "try", "void", "volatile", "while", "true", "false", "null",
     "var", "yield", "record", "sealed", "permits", "non-sealed"}

IsJavaKeyword(word) == word \in JavaKeywords

\* EscapeJavaKeyword putting the underscore before every name
EscapeJavaKeywordAlways(name) == "_" \o name

EscapeJavaKeyword(name) ==
    With(name, LAMBDA n : IF IsJavaKeyword(n) THEN "_" \o n ELSE n)

FieldCaseCamel == "camelCase"
FieldCaseSnake == "snake_case"

\* NamingHelper methods take the NamingConfig the helper was built with.
GetTypeName(naming, td) ==
    LET javaName == ExtractJavaNameDirective(td.Directives)
    IN IF javaName # <<>> THEN javaName[1].Name
       ELSE IF td.Kind = TypeKindInterface
            THEN (IF naming.InterfacePrefix # ""
                  THEN naming.InterfacePrefix \o td.Name ELSE td.Name)
       ELSE IF td.Kind \in {TypeKindObject, TypeKindInputObject}
            THEN (IF naming.ClassSuffix # ""
                  THEN td.Name \o naming.ClassSuffix ELSE td.Name)
       ELSE td.Name

GetFieldName(naming, field) ==
    LET javaName == ExtractJavaNameDirective(field.Directives)
    IN IF javaName # <<>> THEN javaName[1].Name
       ELSE IF naming.FieldCase = FieldCaseSnake THEN toSnakeCase(field.Name)
       ELSE toCamelCase(field.Name)

GetEnumValueName(enumValue) ==
    LET javaName == ExtractJavaNameDirective(enumValue.Directives)
    IN IF javaName # <<>> THEN javaName[1].Name ELSE enumValue.Name

GetGetterName(fieldName, isBoolean) ==
    With(fieldName, LAMBDA name :
        (IF isBoolean /\ ~HasPrefix(ToLower(name), "is") THEN "is" ELSE "get")
        \o capitalizeFirst(name))

GetSetterName(fieldName) == "set" \o capitalizeFirst(fieldName)

----------------------------------------------------------------------------
(* internal/annotations/lombok.go                                          *)

\* the first deprecated directive, as a pointer
ExtractDeprecatedDirective(directives) ==
    LET hits == {i \in 1..Len(directives) : directives[i].Name = DirectiveDeprecated}
    IN IF hits = {} THEN <<>>
       ELSE <<[Reason |-> GetArgumentString(
                   directives[CHOOSE i \in hits : \A j \in hits : i <= j], "reason")]>>

\* every annotation directive with a value, in declaration order
ExtractAnnotationDirectives(directives) ==
    LET valued == SelectSeq(directives, LAMBDA d :
                      /\ d.Name = DirectiveAnnotation
                      /\ GetArgumentString(d, "value") # "")
    IN [i \in 1..Len(valued) |->
           [Value |-> GetArgumentString(valued[i], "value"),
            Imports |-> GetArgumentStringSlice(valued[i], "imports")]]

\* the first constraint directive, as a pointer; the integer facets are
\* pointers themselves
ExtractConstraintDirective(directives) ==
    LET hits == {i \in 1..Len(directives) : directives[i].Name = DirectiveConstraint}
    IN IF hits = {} THEN <<>>
       ELSE LET d == directives[CHOOSE i \in hits : \A j \in hits : i <= j]
            IN <<[MinLength |-> GetArgumentInt(d, "minLength"),
                  MaxLength |-> GetArgumentInt(d, "maxLength"),
                  Min |-> GetArgumentInt(d, "min"),
                  Max |-> GetArgumentInt(d, "max"),
                  Pattern |-> GetArgumentString(d, "pattern"),
                  NotNull |-> GetArgumentBool(d, "notNull") = <<TRUE>>,
                  NotBlank |-> GetArgumentBool(d, "notBlank") = <<TRUE>>,
                  Email |-> GetArgumentBool(d, "email") = <<TRUE>>]>>

\* fmt.Sprintf("%d", n) for n >= 0
RECURSIVE Itoa(_)
Itoa(n) ==
    IF n < 10 THEN SubSeq("0123456789", n + 1, n + 1)
    ELSE Itoa(n \div 10) \o SubSeq("0123456789", (n % 10) + 1, (n % 10) + 1)

\* strings.ReplaceAll(s, "\"", "\\\"")
RECURSIVE EscapeQuotes(_)
EscapeQuotes(s) ==
    IF s = "" THEN ""
    ELSE (IF SubSeq(s, 1, 1) = "\"" THEN "\\\"" ELSE SubSeq(s, 1, 1))
         \o EscapeQuotes(SubSeq(s, 2, Len(s)))

GetValidationPackage(validation) ==
    IF validation.Package = ValidationJavax
    THEN "javax.validation.constraints"
    ELSE "jakarta.validation.constraints"

Annotations(annotations, imports) == [annotations |-> annotations, imports |-> imports]

NoAnnotations == Annotations(<<>>, <<>>)

\* one annotation with its import when the condition holds
Emit(condition, annotation, import) ==
    IF condition THEN Annotations(<<annotation>>, <<import>>) ELSE NoAnnotations

Both(a, b) == Annotations(a.annotations \o b.annotations, a.imports \o b.imports)

\* generateConstraintAnnotations with @Size written for a minimum length only
generateConstraintAnnotationsSizeOnMin(c, basePkg) ==
    Both(Emit(c.MinLength # <<>>,
              "@Size(min = " \o Itoa(c.MinLength[1]) \o ")", basePkg \o ".Size"),
    Both(Emit(c.Min # <<>>, "@Min(" \o Itoa(c.Min[1]) \o ")", basePkg \o ".Min"),
    Both(Emit(c.Max # <<>>, "@Max(" \o Itoa(c.Max[1]) \o ")", basePkg \o ".Max"),
    Both(Emit(c.Pattern # "",
              "@Pattern(regexp = \"" \o EscapeQuotes(c.Pattern) \o "\")",
              basePkg \o ".Pattern"),
    Both(Emit(c.NotNull, "@NotNull", basePkg \o ".NotNull"),
    Both(Emit(c.NotBlank, "@NotBlank", basePkg \o ".NotBlank"),
         Emit(c.Email, "@Email", basePkg \o ".Email")))))))

generateConstraintAnnotations(c, basePkg) ==
    Both(Emit(c.MinLength # <<>> \/ c.MaxLength # <<>>,
              "@Size("
              \o (IF c.MinLength # <<>> THEN "min = " \o Itoa(c.MinLength[1]) ELSE "")
              \o (IF c.MinLength # <<>> /\ c.MaxLength # <<>> THEN ", " ELSE "")
              \o (IF c.MaxLength # <<>> THEN "max = " \o Itoa(c.MaxLength[1]) ELSE "")
              \o ")",
              basePkg \o ".Size"),
    Both(Emit(c.Min # <<>>, "@Min(" \o Itoa(c.Min[1]) \o ")", basePkg \o ".Min"),
    Both(Emit(c.Max # <<>>, "@Max(" \o Itoa(c.Max[1]) \o ")", basePkg \o ".Max"),
    Both(Emit(c.Pattern # "",
              "@Pattern(regexp = \"" \o EscapeQuotes(c.Pattern) \o "\")",
              basePkg \o ".Pattern"),
    Both(Emit(c.NotNull, "@NotNull", basePkg \o ".NotNull"),
    Both(Emit(c.NotBlank, "@NotBlank", basePkg \o ".NotBlank"),
         Emit(c.Email, "@Email", basePkg \o ".Email")))))))

ValidationGenerateFieldAnnotations(validation, field, nonNull) ==
    IF ~validation.Enabled THEN NoAnnotations
    ELSE Both(Emit(nonNull /\ validation.NotNullOnNonNull, "@NotNull",
                   GetValidationPackage(validation) \o ".NotNull"),
              IF ExtractConstraintDirective(field.Directives) = <<>>
              THEN NoAnnotations
              ELSE generateConstraintAnnotations(
                       ExtractConstraintDirective(field.Directives)[1],
                       GetValidationPackage(validation)))

\* CustomAnnotationGenerator.extractAnnotations
RECURSIVE extractAnnotations(_)
extractAnnotations(directives) ==
    IF directives = <<>> THEN NoAnnotations
    ELSE IF Head(directives).Name = DirectiveAnnotation
            /\ GetArgumentString(Head(directives), "value") # ""
    THEN Both(Annotations(<<GetArgumentString(Head(directives), "value")>>,
                          GetArgumentStringSlice(Head(directives), "imports")),
              extractAnnotations(Tail(directives)))
    ELSE extractAnnotations(Tail(directives))

\* the annotation GenerateDeprecatedAnnotation returns, "" when there is none
GenerateDeprecatedAnnotation(directives) ==
    IF ExtractDeprecatedDirective(directives) = <<>> THEN "" ELSE "@Deprecated"

\* LombokAnnotations(): the annotation and the import of each known key
LombokAnnotations ==
    ("data" :> [Name |-> "@Data", Import |-> "lombok.Data"]) @@
    ("builder" :> [Name |-> "@Builder", Import |-> "lombok.Builder"]) @@
    ("noArgsConstructor" :> [Name |-> "@NoArgsConstructor",
                             Import |-> "lombok.NoArgsConstructor"]) @@
    ("allArgsConstructor" :> [Name |-> "@AllArgsConstructor",
                              Import |-> "lombok.AllArgsConstructor"]) @@
    ("getter" :> [Name |-> "@Getter", Import |-> "lombok.Getter"]) @@
    ("setter" :> [Name |-> "@Setter", Import |-> "lombok.Setter"]) @@
    ("toString" :> [Name |-> "@ToString", Import |-> "lombok.ToString"]) @@
    ("equalsAndHashCode" :> [Name |-> "@EqualsAndHashCode",
                             Import |-> "lombok.EqualsAndHashCode"]) @@
    ("value" :> [Name |-> "@Value", Import |-> "lombok.Value"]) @@
    ("superBuilder" :> [Name |-> "@SuperBuilder",
                        Import |-> "lombok.experimental.SuperBuilder"])

\* the first lombok directive, as a pointer
ExtractLombokDirective(directives) ==
    LET hits == {i \in 1..Len(directives) : directives[i].Name = DirectiveLombok}
    IN IF hits = {} THEN <<>>
       ELSE LET d == directives[CHOOSE i \in hits : \A j \in hits : i <= j]
            IN <<[Exclude |-> GetArgumentStringSlice(d, "exclude"),
                  Include |-> GetArgumentStringSlice(d, "include")]>>

\* enabled[name] = value for every name of the slice, in order
RECURSIVE SetAll(_, _, _)
SetAll(enabled, names, value) ==
    IF names = <<>> THEN enabled
    ELSE SetAll((Head(names) :> value) @@ enabled, Tail(names), value)

\* getEnabledAnnotations with the two loops in the other order
getEnabledAnnotationsExcludeLast(lombok, directive) ==
    LET enabled ==
            ("data" :> lombok.Data) @@ ("builder" :> lombok.Builder) @@
            ("noArgsConstructor" :> lombok.NoArgsConstructor) @@
            ("allArgsConstructor" :> lombok.AllArgsConstructor) @@
            ("getter" :> lombok.Getter) @@ ("setter" :> lombok.Setter)
    IN IF directive = <<>> THEN enabled
       ELSE SetAll(SetAll(enabled, directive[1].Include, TRUE),
                   directive[1].Exclude, FALSE)

getEnabledAnnotations(lombok, directive) ==
    LET enabled ==
            ("data" :> lombok.Data) @@ ("builder" :> lombok.Builder) @@
            ("noArgsConstructor" :> lombok.NoArgsConstructor) @@
            ("allArgsConstructor" :> lombok.AllArgsConstructor) @@
            ("getter" :> lombok.Getter) @@ ("setter" :> lombok.Setter)
    IN IF directive = <<>> THEN enabled
       ELSE SetAll(SetAll(enabled, directive[1].Exclude, FALSE),
                   directive[1].Include, TRUE)

\* GenerateTypeAnnotations ranges over the map of enabled annotations; the
\* order of a range over a map is not fixed, and visit is the order in which
\* this call meets the keys
LombokGenerateTypeAnnotations(lombok, directives, visit) ==
    IF ~lombok.Enabled THEN NoAnnotations
    ELSE LET enabled == getEnabledAnnotations(lombok, ExtractLombokDirective(directives))
             emitted == SelectSeq(visit, LAMBDA name :
                            /\ name \in DOMAIN enabled
                            /\ enabled[name]
                            /\ name \in DOMAIN LombokAnnotations)
         IN [annotations |-> [i \in 1..Len(emitted) |-> LombokAnnotations[emitted[i]].Name],
             imports |-> [i \in 1..Len(emitted) |-> LombokAnnotations[emitted[i]].Import]]

NeedsGettersSetters(lombok) ==
    IF ~lombok.Enabled THEN TRUE
    ELSE IF lombok.Data THEN FALSE
    ELSE ~lombok.Getter \/ ~lombok.Setter

----------------------------------------------------------------------------
(* internal/generator: contexts and the per-type generators.               *)
(*                                                                         *)
(* Generated text is a sequence of lines, each <<kind, name, type>>: the   *)
(* package declaration, the type header, one line per implemented or       *)
(* extended interface, per field declaration, per accessor, per method     *)
(* signature and per enum constant (its third component is the punctuation *)
(* written after it), and the closing brace.  The empty text is <<>>.      *)

Line(kind, name, type) == <<kind, name, type>>

\* the Schema.Types map of a schema given as a sequence of its types
SchemaTypes(types) ==
    [name \in {types[i].Name : i \in 1..Len(types)} |->
        types[CHOOSE i \in 1..Len(types) : types[i].Name = name]]

NewContext(cfg, types) ==
    [Config |-> cfg,
     Schema |-> SchemaTypes(types),
     TypeMapper |-> [NewTypeMapper(cfg) EXCEPT !.schemaTypes = SchemaTypes(types)],
     NamingHelper |-> cfg.Java.Naming,
     LombokGen |-> cfg.Features.Lombok,
     ValidationGen |-> cfg.Features.Validation]

\* an import manager that starts with the imports of the units generated
\* before it
NewImportManagerShared(package) ==
    UNION {{files[i].Content[j][2] :
               j \in {k \in 1..Len(files[i].Content) :
                         files[i].Content[k][1] = "import"}} : i \in 1..Len(files)}

\* NewImportManager: the imports are a set, empty at first
NewImportManager(package) == {}

NewTypeContext(ctx, td) ==
    [ctx |-> ctx, TypeDef |-> td, TypeName |-> GetTypeName(ctx.NamingHelper, td),
     Imports |-> NewImportManager(ctx.Config.Output.Package)]

\* TypeShouldSkip honouring the skip directive on class kinds only
TypeShouldSkipClassOnly(tc) ==
    /\ tc.TypeDef.Kind \in {TypeKindObject, TypeKindInputObject}
    /\ ExtractSkipDirective(tc.TypeDef.Directives) # <<>>

TypeShouldSkip(tc) == ExtractSkipDirective(tc.TypeDef.Directives) # <<>>

NewFieldContext(tc, field) ==
    LET fieldName == EscapeJavaKeyword(GetFieldName(tc.ctx.NamingHelper, field))
    IN With(MapFieldType(tc.ctx.TypeMapper, field), LAMBDA mapResult :
           [fc |-> [Field |-> field,
                    FieldName |-> fieldName,
                    JavaType |-> mapResult.res.JavaType,
                    Imports |-> mapResult.res.Imports,
                    IsNonNull |-> field.Type # <<>> /\ field.Type[1].NonNull],
            err |-> mapResult.err])

\* FieldShouldSkip without the test for introspection types
FieldShouldSkipDirectiveOnly(fc) ==
    ExtractSkipDirective(fc.Field.Directives) # <<>>

FieldShouldSkip(fc) ==
    \/ ExtractSkipDirective(fc.Field.Directives) # <<>>
    \/ /\ fc.Field.Type # <<>>
       /\ LET namedType == NamedType(fc.Field.Type[1])
          IN Len(namedType) >= 2 /\ SubSeq(namedType, 1, 2) = "__"

IsBooleanType(fc) == fc.JavaType = "boolean" \/ fc.JavaType = "Boolean"

RECURSIVE Flatten(_)
Flatten(seqs) ==
    With(seqs, LAMBDA ss :
        IF ss = <<>> THEN <<>> ELSE Head(ss) \o Flatten(Tail(ss)))

\* the characters of Java import names, in the byte order sort.Strings
\* compares by
Ascii == "$.0123456789ABCDEFGHIJKLMNOPQRSTUVWXYZ[]_abcdefghijklmnopqrstuvwxyz"

Code(c) == CHOOSE i \in 1..Len(Ascii) : SubSeq(Ascii, i, i) = c

StringLess(a, b) ==
    LET shorter == IF Len(a) < Len(b) THEN Len(a) ELSE Len(b)
        differ == {i \in 1..shorter : SubSeq(a, i, i) # SubSeq(b, i, i)}
    IN IF differ = {} THEN Len(a) < Len(b)
       ELSE With(CHOOSE i \in differ : \A j \in differ : i <= j, LAMBDA i :
                Code(SubSeq(a, i, i)) < Code(SubSeq(b, i, i)))

\* ImportManager.GetSorted
RECURSIVE GetSorted(_)
GetSorted(imports) ==
    IF imports = {} THEN <<>>
    ELSE With(CHOOSE imp \in imports :
                 \A other \in imports \ {imp} : StringLess(imp, other), LAMBDA first :
             <<first>> \o GetSorted(imports \ {first}))

\* strings.LastIndex(s, c) + 1 for a one-character c
LastIndex(s, c) ==
    LET hits == {i \in 1..Len(s) : SubSeq(s, i, i) = c}
    IN IF hits = {} THEN 0 ELSE CHOOSE i \in hits : \A j \in hits : j <= i

isSamePackage(package, imp) ==
    /\ package # ""
    /\ LastIndex(imp, ".") > 0
    /\ SubSeq(imp, 1, LastIndex(imp, ".") - 1) = package

\* Add keeping only the empty import out
UnimportedEmptyOnly(package, imp) == imp = ""

\* ImportManager.Add keeps imp out: empty, a class of java.lang itself, or a
\* class of the unit's own package
Unimported(package, imp) ==
    \/ imp = ""
    \/ HasPrefix(imp, "java.lang.") /\ ~Contains(SubSeq(imp, 11, Len(imp)), ".")
    \/ isSamePackage(package, imp)

\* ImportManager.AddAll on the accumulated set of imports
AddAll(imports, package, added) ==
    imports \cup {added[i] : i \in {j \in 1..Len(added) : ~Unimported(package, added[j])}}

getImportPrefix(imp) ==
    With(Split(imp, "."), LAMBDA parts :
        IF Len(parts) >= 2 THEN parts[1] \o "." \o parts[2] ELSE parts[1])

\* GenerateImportBlock: one line per import in ascending order, and an empty
\* line between two groups
GenerateImportBlock(imports) ==
    With(GetSorted(imports), LAMBDA sorted :
        Flatten([i \in 1..Len(sorted) |->
            (IF i > 1 /\ getImportPrefix(sorted[i]) # getImportPrefix(sorted[i - 1])
             THEN <<Line("blank", "", "")>> ELSE <<>>)
            \o <<Line("import", sorted[i], "")>>]))

\* generateClassAnnotations: the annotations, and the imports it adds
generateClassAnnotations(tc, visit) ==
    Both(Emit(GenerateDeprecatedAnnotation(tc.TypeDef.Directives) # "",
              GenerateDeprecatedAnnotation(tc.TypeDef.Directives), ""),
    Both(LombokGenerateTypeAnnotations(tc.ctx.LombokGen, tc.TypeDef.Directives, visit),
         extractAnnotations(tc.TypeDef.Directives)))

\* generateFieldAnnotations: the annotations, and the imports it adds
generateFieldAnnotations(tc, fc) ==
    Both(Emit(GenerateDeprecatedAnnotation(fc.Field.Directives) # "",
              GenerateDeprecatedAnnotation(fc.Field.Directives), ""),
    Both(ValidationGenerateFieldAnnotations(tc.ctx.ValidationGen, fc.Field, fc.IsNonNull),
         extractAnnotations(fc.Field.Directives)))

AnnotationLines(kind, annotations) ==
    [i \in 1..Len(annotations) |-> Line(kind, annotations[i], "")]

GenerateField(tc, fc) ==
    AnnotationLines("fieldannotation", generateFieldAnnotations(tc, fc).annotations)
    \o <<Line("field", fc.FieldName, fc.JavaType)>>

\* the imports GenerateField adds for a field
FieldImports(tc, fc) == fc.Imports \o generateFieldAnnotations(tc, fc).imports

GenerateGetter(fc) ==
    <<Line("getter", GetGetterName(fc.FieldName, IsBooleanType(fc)), fc.JavaType)>>

GenerateSetter(fc) ==
    <<Line("setter", GetSetterName(fc.FieldName), fc.JavaType)>>

\* the implements or extends list: the interface prefix put before each name
InterfaceLines(kind, ctx, td) ==
    [i \in 1..Len(td.Interfaces) |->
        Line(kind,
             IF ctx.Config.Java.Naming.InterfacePrefix # ""
             THEN ctx.Config.Java.Naming.InterfacePrefix \o td.Interfaces[i]
             ELSE td.Interfaces[i],
             "")]

\* the index of the first field whose field context cannot be built, or 0
FirstFieldError(tc, fields) ==
    LET bad == {i \in 1..Len(fields) : NewFieldContext(tc, fields[i]).err # NoError}
    IN IF bad = {} THEN 0 ELSE CHOOSE i \in bad : \A j \in bad : i <= j

Text(text) == [text |-> text, err |-> NoError]
NoText(err) == [text |-> <<>>, err |-> err]

\* the field contexts of the fields the class keeps, in declaration order
FieldContexts(tc, fields) ==
    With([i \in 1..Len(fields) |-> NewFieldContext(tc, fields[i]).fc], LAMBDA fcs :
        SelectSeq(fcs, LAMBDA fc : ~FieldShouldSkip(fc)))

\* visit is the order in which the range over the map of enabled Lombok
\* annotations meets its keys in this call
ClassGenerate(ctx, td, visit) ==
    With(NewTypeContext(ctx, td), LAMBDA tc :
        IF TypeShouldSkip(tc) THEN Text(<<>>)
        ELSE IF FirstFieldError(tc, td.Fields) # 0 THEN NoText(GenerateError)
        ELSE With(FieldContexts(tc, td.Fields), LAMBDA fieldContexts :
             With(generateClassAnnotations(tc, visit), LAMBDA classAnnotations :
            Text(<<Line("package", ctx.Config.Output.Package, "")>>
                 \o GenerateImportBlock(
                        AddAll(tc.Imports, ctx.Config.Output.Package,
                               classAnnotations.imports
                               \o Flatten([i \in 1..Len(fieldContexts) |->
                                              FieldImports(tc, fieldContexts[i])])))
                 \o AnnotationLines("annotation", classAnnotations.annotations)
                 \o <<Line("class", tc.TypeName, "")>>
                 \o InterfaceLines("implements", ctx, td)
                 \o Flatten([i \in 1..Len(fieldContexts) |->
                                GenerateField(tc, fieldContexts[i])])
                 \o (IF NeedsGettersSetters(ctx.LombokGen) /\ Len(fieldContexts) > 0
                     THEN Flatten([i \in 1..Len(fieldContexts) |->
                                     GenerateGetter(fieldContexts[i])
                                     \o GenerateSetter(fieldContexts[i])])
                     ELSE <<>>)
                 \o <<Line("close", "", "")>>))))

GenerateInterfaceMethod(tc, field) ==
    With(NewFieldContext(tc, field), LAMBDA made :
        IF made.err # NoError THEN NoText(made.err)
        ELSE IF FieldShouldSkip(made.fc) THEN Text(<<>>)
        ELSE Text(AnnotationLines("methodannotation",
                      Emit(GenerateDeprecatedAnnotation(field.Directives) # "",
                           GenerateDeprecatedAnnotation(field.Directives),
                           "").annotations)
                  \o <<Line("method",
                            GetGetterName(made.fc.FieldName, IsBooleanType(made.fc)),
                            made.fc.JavaType)>>))

\* the imports GenerateInterfaceMethod adds for a field
InterfaceMethodImports(tc, field) ==
    With(NewFieldContext(tc, field), LAMBDA made :
        IF made.err # NoError \/ FieldShouldSkip(made.fc) THEN <<>>
        ELSE made.fc.Imports)

\* generateInterfaceAnnotations and generateEnumAnnotations: the
\* annotations, and the imports they add
generateInterfaceAnnotations(tc) ==
    Both(Emit(GenerateDeprecatedAnnotation(tc.TypeDef.Directives) # "",
              GenerateDeprecatedAnnotation(tc.TypeDef.Directives), ""),
         extractAnnotations(tc.TypeDef.Directives))

InterfaceGenerate(ctx, td) ==
    With(NewTypeContext(ctx, td), LAMBDA tc :
        IF TypeShouldSkip(tc) THEN Text(<<>>)
        ELSE With([i \in 1..Len(td.Fields) |->
                      GenerateInterfaceMethod(tc, td.Fields[i])], LAMBDA methods :
            IF \E i \in 1..Len(methods) : methods[i].err # NoError
            THEN NoText(GenerateError)
            ELSE With(generateInterfaceAnnotations(tc), LAMBDA interfaceAnnotations :
                 Text(<<Line("package", ctx.Config.Output.Package, "")>>
                      \o GenerateImportBlock(
                             AddAll(tc.Imports, ctx.Config.Output.Package,
                                    interfaceAnnotations.imports
                                    \o Flatten([i \in 1..Len(td.Fields) |->
                                          InterfaceMethodImports(tc, td.Fields[i])])))
                      \o AnnotationLines("annotation", interfaceAnnotations.annotations)
                      \o <<Line("interface", tc.TypeName, "")>>
                      \o InterfaceLines("extends", ctx, td)
                      \o Flatten([i \in 1..Len(methods) |-> methods[i].text])
                      \o <<Line("close", "", "")>>))))

\* generateValueAnnotations: the annotations of an enum value, and the
\* imports it adds
generateValueAnnotations(enumValue) ==
    Both(Emit(GenerateDeprecatedAnnotation(enumValue.Directives) # "",
              GenerateDeprecatedAnnotation(enumValue.Directives), ""),
         extractAnnotations(enumValue.Directives))

\* the constants of the enum body: a value that carries skip writes nothing;
\* a written value is followed by "," when its index is before the last
\* declared index and by ";" otherwise
EnumValueLines(td) ==
    Flatten([i \in 1..Len(td.EnumValues) |->
        IF ExtractSkipDirective(td.EnumValues[i].Directives) # <<>> THEN <<>>
        ELSE AnnotationLines("valueannotation",
                             generateValueAnnotations(td.EnumValues[i]).annotations)
             \o <<Line("value", GetEnumValueName(td.EnumValues[i]),
                       IF i - 1 < Len(td.EnumValues) - 1 THEN "," ELSE ";")>>])

\* the imports the retained values of an enum add
EnumValueImports(td) ==
    Flatten([i \in 1..Len(td.EnumValues) |->
        IF ExtractSkipDirective(td.EnumValues[i].Directives) # <<>> THEN <<>>
        ELSE generateValueAnnotations(td.EnumValues[i]).imports])

EnumGenerate(ctx, td) ==
    With(NewTypeContext(ctx, td), LAMBDA tc :
       IF TypeShouldSkip(tc) THEN Text(<<>>)
       ELSE With(generateInterfaceAnnotations(tc), LAMBDA enumAnnotations :
            Text(<<Line("package", ctx.Config.Output.Package, "")>>
                 \o GenerateImportBlock(
                        AddAll(tc.Imports, ctx.Config.Output.Package,
                               enumAnnotations.imports \o EnumValueImports(td)))
                 \o AnnotationLines("annotation", enumAnnotations.annotations)
                 \o <<Line("enum", tc.TypeName, "")>>
                 \o EnumValueLines(td)
                 \o <<Line("close", "", "")>>)))

UnionGenerate(ctx, td) ==
    With(NewTypeContext(ctx, td), LAMBDA tc :
       IF TypeShouldSkip(tc) THEN Text(<<>>)
       ELSE Text(<<Line("package", ctx.Config.Output.Package, ""),
                   Line("interface", tc.TypeName, ""),
                   Line("close", "", "")>>))

----------------------------------------------------------------------------
(* internal/generator: the orchestrator.                                   *)

GeneratedFile(fileName, text, td) ==
    [FileName |-> fileName, Content |-> text, TypeDef |-> td]

\* generateType returns (file, err); file is a pointer, <<>> for nil
generateType(ctx, td, visit) ==
    With(IF td.Kind \in {TypeKindObject, TypeKindInputObject}
         THEN ClassGenerate(ctx, td, visit)
         ELSE IF td.Kind = TypeKindInterface THEN InterfaceGenerate(ctx, td)
         ELSE IF td.Kind = TypeKindEnum THEN EnumGenerate(ctx, td)
         ELSE IF td.Kind = TypeKindUnion THEN UnionGenerate(ctx, td)
         ELSE Text(<<>>), LAMBDA made :
        IF made.err # NoError THEN [file |-> <<>>, err |-> made.err]
        ELSE IF made.text = <<>> THEN [file |-> <<>>, err |-> NoError]
        ELSE [file |-> <<GeneratedFile(GetTypeName(ctx.NamingHelper, td) \o ".java",
                                       made.text, td)>>,
              err |-> NoError])

----------------------------------------------------------------------------
(* The configurations and inputs the model ranges over.                    *)

LombokConfig(enabled, data, getter, setter) ==
    [Enabled |-> enabled, Data |-> data, Builder |-> FALSE,
     NoArgsConstructor |-> FALSE, AllArgsConstructor |-> FALSE,
     Getter |-> getter, Setter |-> setter]

ValidationConfig(enabled, package, notNullOnNonNull) ==
    [Enabled |-> enabled, Package |-> package, NotNullOnNonNull |-> notNullOnNonNull]

\* the fields DefaultConfig sets and these arguments do not: Java 17,
\* validation disabled with the jakarta package, and the override of the
\* validation package for Java 8
Config(nullableHandling, collectionType, naming, scalars, lombok) ==
    [Output |-> [Package |-> "com.example"],
     Java |-> [Version |-> 17,
               CollectionType |-> collectionType,
               NullableHandling |-> nullableHandling,
               Naming |-> naming],
     TypeMappings |-> [Scalars |-> scalars],
     Features |-> [Lombok |-> lombok,
                   Validation |-> ValidationConfig(FALSE, ValidationJakarta, TRUE)],
     JavaVersionOverrides |->
        (8 :> [Features |-> [Validation |-> [Package |-> ValidationJavax]]])]

NullableHandlings == {NullableWrapper, NullableOptional, NullableAnnotation}

\* the collection types Validate accepts
ConfigCollectionTypes == {"List", "Set", "Collection"}

Namings ==
    {[FieldCase |-> FieldCaseCamel, InterfacePrefix |-> "", ClassSuffix |-> ""],
     [FieldCase |-> FieldCaseSnake, InterfacePrefix |-> "I", ClassSuffix |-> "DTO"]}

\* typeMappings.scalars: none; entries of DefaultScalarMappings; an override
\* of a built-in scalar together with a scalar no table knows
ScalarOverrides ==
    {<<>>,
     ("DateTime" :> ScalarMapping("java.time.LocalDateTime", <<"java.time.LocalDateTime">>)) @@
     ("Long" :> ScalarMapping("Long", <<>>)),
     ("Int" :> ScalarMapping("BigInteger", <<"java.math.BigInteger">>)) @@
     ("Money" :> ScalarMapping("BigDecimal", <<"java.math.BigDecimal">>))}

LombokConfigs ==
    {LombokConfig(FALSE, FALSE, FALSE, FALSE),
     LombokConfig(TRUE, TRUE, FALSE, FALSE),
     LombokConfig(TRUE, FALSE, TRUE, TRUE),
     LombokConfig(TRUE, FALSE, TRUE, FALSE)}

\* the default configuration's Lombok section: disabled
MapperConfigs ==
    {Config(n, c, g, s, LombokConfig(FALSE, FALSE, FALSE, FALSE)) :
        n \in NullableHandlings, c \in ConfigCollectionTypes,
        g \in Namings, s \in ScalarOverrides}

\* names a reference can carry: built-in scalars, common scalars, schema
\* types, a name only a configuration may know, an introspection type, and
\* the empty name of a reference that carries no name
RefNames ==
    {"Int", "Float", "Boolean", "String", "ID", "Long", "Short", "Byte", "Char",
     "DateTime", "User", "Node", "Account", "Entity", "Status", "SearchResult",
     "UserInput", "Money", "__Type", ""}

RECURSIVE TypeRefs(_)
TypeRefs(depth) ==
    IF depth = 0
    THEN {NamedRef(n, nn) : n \in RefNames, nn \in BOOLEAN}
    ELSE TypeRefs(depth - 1) \cup
         {ListRef(e, nn) : e \in TypeRefs(depth - 1), nn \in BOOLEAN}

\* a *TypeRef: nil or a reference
TypeRefPointers == {<<>>} \cup {<<t>> : t \in TypeRefs(MaxListDepth)}

\* the schema registry the mapper resolves references against
RegistryTypes ==
    ("User" :> TypeDef("User", TypeKindObject, <<>>, <<>>, <<"Node">>, <<>>)) @@
    ("Node" :> TypeDef("Node", TypeKindInterface, <<>>, <<>>, <<>>, <<>>)) @@
    ("Account" :> TypeDef("Account", TypeKindObject, <<>>, <<>>, <<>>,
                          <<DirectiveDef(DirectiveJavaName,
                                         [name |-> StringValue("Acct")])>>)) @@
    ("Entity" :> TypeDef("Entity", TypeKindInterface, <<>>, <<>>, <<>>,
                         <<DirectiveDef(DirectiveJavaName,
                                        [name |-> StringValue("Identified")])>>)) @@
    ("Status" :> TypeDef("Status", TypeKindEnum, <<>>, <<>>, <<>>, <<>>)) @@
    ("SearchResult" :> TypeDef("SearchResult", TypeKindUnion, <<>>, <<>>, <<>>, <<>>)) @@
    ("UserInput" :> TypeDef("UserInput", TypeKindInputObject, <<>>, <<>>, <<>>, <<>>)) @@
    ("Money" :> TypeDef("Money", TypeKindScalar, <<>>, <<>>, <<>>, <<>>))

\* names the references of mapped fields carry
FieldRefNames == {"Int", "String", "DateTime", "UUID", "User", "Money"}

RECURSIVE FieldTypeRefs(_)
FieldTypeRefs(depth) ==
    IF depth = 0
    THEN {NamedRef(n, nn) : n \in FieldRefNames, nn \in BOOLEAN}
    ELSE FieldTypeRefs(depth - 1) \cup
         {ListRef(e, nn) : e \in FieldTypeRefs(depth - 1), nn \in BOOLEAN}

Collection(type) ==
    DirectiveDef(DirectiveCollection, [type |-> StringValue(type)])

JavaTypeOf(type, imports) ==
    DirectiveDef(DirectiveJavaType,
                 [type |-> StringValue(type), imports |-> ListValue(imports)])

\* the directive lists of mapped fields: none; a collection override of each
\* known shape, of an unknown shape and with an empty type; a custom type
\* with and without imports and with an empty type; both kinds together
FieldDirectiveLists ==
    {<<>>}
    \cup {<<Collection(c)>> :
            c \in {"List", "Set", "Collection", "SortedSet", "LinkedList", "Bag", ""}}
    \cup {<<Collection("Set"), Collection("SortedSet")>>,
          <<JavaTypeOf("java.time.Instant", <<"java.time.Instant">>)>>,
          <<DirectiveDef(DirectiveJavaType, [type |-> StringValue("long")])>>,
          <<JavaTypeOf("", <<"java.time.Instant">>), Collection("Set")>>,
          <<Collection("Set"), JavaTypeOf("byte[]", <<>>)>>}

\* the fields MapFieldType is called on
MappedFields ==
    {FieldDef("value", type, directives) :
        type \in {<<>>} \cup {<<t>> : t \in FieldTypeRefs(MaxListDepth)},
        directives \in FieldDirectiveLists}

----------------------------------------------------------------------------
(* The type mapper as a state machine: a mapper is constructed, its schema *)
(* registry is set, and references and fields are mapped.                  *)

NoMapRet == Ok(NilResult)
NoGenRet == [files |-> <<>>, err |-> NoError]

InitTypeMap ==
    /\ config \in MapperConfigs
    /\ tm = NewTypeMapper(config)
    /\ op = "NewTypeMapper"
    /\ typeRef = <<>>
    /\ mapRet = NoMapRet
    /\ schema = <<>>
    /\ idx = 0
    /\ files = <<>>
    /\ errs = <<>>
    /\ genRet = NoGenRet
    /\ typeName = ""
    /\ arg = <<>>
    /\ ret = <<>>

SetSchemaTypes ==
    /\ op = "NewTypeMapper"
    /\ tm' = [tm EXCEPT !.schemaTypes = RegistryTypes]
    /\ op' = "SetSchemaTypes"
    /\ UNCHANGED <<config, typeRef, mapRet, schema, idx, files, errs, genRet,
                   typeName, arg, ret>>

\* MapType reads the mapper and leaves it as it is, so a behaviour with one
\* call reaches every combination of mapper, reference and result.
DoMapType ==
    /\ op \in {"NewTypeMapper", "SetSchemaTypes"}
    /\ \E ref \in TypeRefPointers :
        /\ typeRef' = ref
        /\ mapRet' = MapType(tm, ref)
    /\ op' = "MapType"
    /\ UNCHANGED <<config, tm, schema, idx, files, errs, genRet, typeName, arg, ret>>

\* MapFieldType is called on the mapper of a generation context, whose
\* registry NewContext has set.
DoMapFieldType ==
    /\ op = "SetSchemaTypes"
    /\ \E field \in MappedFields :
        /\ arg' = field
        /\ mapRet' = MapFieldType(tm, field)
    /\ op' = "MapFieldType"
    /\ UNCHANGED <<config, tm, typeRef, schema, idx, files, errs, genRet, typeName,
                   ret>>

NextTypeMap == SetSchemaTypes \/ DoMapType \/ DoMapFieldType

SpecTypeMap == InitTypeMap /\ [][NextTypeMap]_vars

----------------------------------------------------------------------------
(* Properties of the type mapper, stated over SpecTypeMap.                 *)

\* a MapType call on a reference (not nil) has returned
Mapped == op = "MapType" /\ typeRef # <<>>

\* a MapType call on a named (not list) reference has returned
MappedNamed == Mapped /\ ~IsList(typeRef[1])

Overridden(name) == name \in DOMAIN config.TypeMappings.Scalars

Optional(javaType) == "Optional<" \o javaType \o ">"

\* the boxed Java type of each built-in scalar
BuiltinBoxed ==
    ("Int" :> "Integer") @@ ("Float" :> "Double") @@ ("Boolean" :> "Boolean") @@
    ("String" :> "String") @@ ("ID" :> "String")

\* the Java primitive type names
PrimitiveNames ==
    {"int", "long", "short", "byte", "float", "double", "boolean", "char"}

\* the Java type a built-in scalar stands for under the configuration
BuiltinJavaType(name) ==
    IF Overridden(name) THEN config.TypeMappings.Scalars[name].JavaType
    ELSE BuiltinBoxed[name]

\* C1: under each nullability policy, MapType of a nullable top-level
\* reference to a built-in scalar returns no primitive type name and does
\* not set is-primitive: it returns the boxed type under wrapper and
\* annotation and Optional of the boxed type under optional.
C1_NullableBuiltinIsBoxed ==
    (MappedNamed /\ typeRef[1].Name \in DOMAIN BuiltinBoxed /\ ~typeRef[1].NonNull)
    => /\ mapRet.err = NoError
       /\ ~mapRet.res.IsPrimitive
       /\ mapRet.res.JavaType \notin PrimitiveNames
       /\ mapRet.res.JavaType =
            IF config.Java.NullableHandling = NullableOptional
            THEN Optional(BuiltinJavaType(typeRef[1].Name))
            ELSE BuiltinJavaType(typeRef[1].Name)

C1_Witness ==
    /\ MappedNamed
    /\ typeRef[1] = NamedRef("Int", FALSE)
    /\ config.Java.NullableHandling = NullableOptional
    /\ mapRet.res.JavaType = "Optional<Integer>"
    /\ ~mapRet.res.IsPrimitive

\* every list level of t maps to a collection of its element's mapped type,
\* and this element type is no primitive name and is its own boxed form
RECURSIVE ListLevelsBoxed(_, _)
ListLevelsBoxed(t, result) ==
    IsList(t) =>
        /\ result.IsCollection
        /\ result.ElementType \notin PrimitiveNames
        /\ BoxType(result.ElementType) = result.ElementType
        /\ result.JavaType =
             CollectionTypes[config.Java.CollectionType].Interface
             \o "<" \o result.ElementType \o ">"
        /\ result.ElementType = mapTypeInternal(tm, t.Elem[1], FALSE).res.JavaType
        /\ ListLevelsBoxed(t.Elem[1], mapTypeInternal(tm, t.Elem[1], FALSE).res)

ScalarTables == BuiltinScalars @@ CommonScalars

\* C3: MapType of a top-level non-null reference to a scalar of the scalar
\* tables that declares a primitive form returns that primitive form with
\* is-primitive set (Int int, Float double, Boolean boolean, Long long, Short
\* short, Byte byte, Char char); String and ID stay String.
C3_NonNullScalarIsPrimitive ==
    (/\ MappedNamed
     /\ typeRef[1].NonNull
     /\ typeRef[1].Name \in DOMAIN ScalarTables
     /\ ~Overridden(typeRef[1].Name))
    => IF ScalarTables[typeRef[1].Name].PrimitiveType # ""
       THEN /\ mapRet.res.JavaType = ScalarTables[typeRef[1].Name].PrimitiveType
            /\ mapRet.res.IsPrimitive
       ELSE /\ mapRet.res.JavaType = ScalarTables[typeRef[1].Name].JavaType
            /\ ~mapRet.res.IsPrimitive

\* C8: under the optional policy, MapType of every nullable top-level
\* reference, named or list, returns Optional<T> with T boxed, is-optional
\* set and java.util.Optional among the imports; a non-null top-level
\* reference is not wrapped.
C8_OptionalWrapsEveryNullable ==
    (Mapped /\ config.Java.NullableHandling = NullableOptional)
    => IF typeRef[1].NonNull
       THEN ~mapRet.res.IsOptional /\ ~HasPrefix(mapRet.res.JavaType, "Optional<")
       ELSE /\ mapRet.res.IsOptional
            /\ HasPrefix(mapRet.res.JavaType, "Optional<")
            /\ ~mapRet.res.IsPrimitive
            /\ \E i \in 1..Len(mapRet.res.Imports) :
                  mapRet.res.Imports[i] = "java.util.Optional"

\* C9: whenever a name is present in the configuration-override map, the
\* Java type MapType returns for a top-level reference to it, nullable or
\* non-null, is the one the override entry gives, not one of a later table.
C9_OverrideWins ==
    (MappedNamed /\ Overridden(typeRef[1].Name))
    => mapRet.res.JavaType =
         IF ~typeRef[1].NonNull /\ config.Java.NullableHandling = NullableOptional
         THEN Optional(config.TypeMappings.Scalars[typeRef[1].Name].JavaType)
         ELSE config.TypeMappings.Scalars[typeRef[1].Name].JavaType

\* some level of t carries neither a type name nor an element reference
RECURSIVE StructurallyInvalid(_)
StructurallyInvalid(t) ==
    IF t.Elem # <<>> THEN StructurallyInvalid(t.Elem[1]) ELSE t.Name = ""

\* C10: MapType returns a type-mapping error exactly for the structurally
\* invalid references and succeeds for every other one: the nil reference
\* yields Object with no imports and an unresolved name yields that name.
C10_ErrorIffStructurallyInvalid ==
    op = "MapType"
    => /\ (mapRet.err = TypeMappingError)
            <=> (typeRef # <<>> /\ StructurallyInvalid(typeRef[1]))
       /\ (mapRet.err # TypeMappingError => mapRet.err = NoError)
       /\ (typeRef = <<>>
            => mapRet.res.JavaType = "Object" /\ mapRet.res.Imports = <<>>)

\* a MapFieldType call has returned
MappedField == op = "MapFieldType"

\* the field carries a custom-type override with a non-empty type
HasCustomType(field) ==
    \E i \in 1..Len(field.Directives) :
        /\ field.Directives[i].Name = DirectiveJavaType
        /\ GetArgumentString(field.Directives[i], "type") # ""

\* the Java interface and the imports of each collection shape; a shape name
\* that is not one of these counts as List
ShapeInterface ==
    ("List" :> "List") @@ ("Set" :> "Set") @@ ("Collection" :> "Collection") @@
    ("SortedSet" :> "SortedSet") @@ ("LinkedList" :> "List")

ShapeImports ==
    ("List" :> {"java.util.List", "java.util.ArrayList"}) @@
    ("Set" :> {"java.util.Set", "java.util.HashSet"}) @@
    ("Collection" :> {"java.util.Collection", "java.util.ArrayList"}) @@
    ("SortedSet" :> {"java.util.SortedSet", "java.util.TreeSet"}) @@
    ("LinkedList" :> {"java.util.List", "java.util.LinkedList"})

KnownShape(shape) == IF shape \in DOMAIN ShapeInterface THEN shape ELSE "List"

ImportSet(result) == {result.Imports[i] : i \in 1..Len(result.Imports)}

\* the shape the field's collection override names
OverrideShape(field) == ExtractCollectionDirective(field.Directives)[1].Type

\* C11: for a list-typed field carrying a collection-shape override,
\* MapFieldType returns the override shape (an unrecognised shape name
\* counting as List) parameterised by the boxed element type of the base
\* mapping, with the override shape's imports present and the imports of
\* the configured default shape absent.
C11_CollectionOverrideShape ==
    (/\ MappedField
     /\ arg.Type # <<>>
     /\ IsList(arg.Type[1])
     /\ ExtractCollectionDirective(arg.Directives) # <<>>
     /\ ~HasCustomType(arg))
    => LET base == MapType(tm, arg.Type).res
           shape == KnownShape(OverrideShape(arg))
       IN /\ mapRet.err = NoError
          /\ mapRet.res.IsCollection
          /\ mapRet.res.ElementType = base.ElementType
          /\ mapRet.res.ElementType \notin PrimitiveNames
          /\ mapRet.res.JavaType =
               ShapeInterface[shape] \o "<" \o base.ElementType \o ">"
          /\ ShapeImports[shape] \subseteq ImportSet(mapRet.res)
          /\ (ShapeImports[config.Java.CollectionType] \ ShapeImports[shape])
               \cap ImportSet(mapRet.res) = {}

\* [String!]! with the Set override under the default List shape
C11_Witness ==
    /\ MappedField
    /\ arg.Type = <<ListRef(NamedRef("String", TRUE), TRUE)>>
    /\ arg.Directives = <<Collection("Set")>>
    /\ config.Java.CollectionType = "List"
    /\ mapRet.res.JavaType = "Set<String>"
    /\ ImportSet(mapRet.res) = {"java.util.Set", "java.util.HashSet"}

\* the first custom-type override of the field with a non-empty type
CustomType(field) ==
    LET hits == {i \in 1..Len(field.Directives) :
                    /\ field.Directives[i].Name = DirectiveJavaType
                    /\ GetArgumentString(field.Directives[i], "type") # ""}
    IN field.Directives[CHOOSE i \in hits : \A j \in hits : i <= j]

\* C12: for a field carrying a custom-type override with a non-empty type,
\* MapFieldType returns exactly the literal override type and exactly the
\* directive's imports, with is-primitive, is-collection and is-optional
\* unset, whatever the declared type, its nullability, the nullability
\* policy and any collection directive on the field.
C12_CustomTypeShortCircuits ==
    (MappedField /\ HasCustomType(arg))
    => /\ mapRet.err = NoError
       /\ mapRet.res.JavaType = CustomType(arg).Arguments["type"].str
       /\ mapRet.res.Imports =
            IF "imports" \in DOMAIN CustomType(arg).Arguments
            THEN CustomType(arg).Arguments["imports"].list ELSE <<>>
       /\ ~mapRet.res.IsPrimitive
       /\ ~mapRet.res.IsCollection
       /\ ~mapRet.res.IsOptional

\* a nullable list field with a collection override and a custom type, under
\* the optional policy
C12_Witness ==
    /\ MappedField
    /\ arg.Type = <<ListRef(NamedRef("Int", TRUE), FALSE)>>
    /\ arg.Directives = <<Collection("Set"), JavaTypeOf("byte[]", <<>>)>>
    /\ config.Java.NullableHandling = NullableOptional
    /\ mapRet.res = NamedResult("byte[]", <<>>, FALSE)

\* the name a type is declared under: its rename-directive name if it has
\* one, else the prefix before an interface's name, the suffix after an
\* object's or input's name, and the plain name of any other kind
DecoratedName(td) ==
    LET renames == {i \in 1..Len(td.Directives) :
                       /\ td.Directives[i].Name = DirectiveJavaName
                       /\ GetArgumentString(td.Directives[i], "name") # ""}
    IN IF renames # {}
       THEN td.Directives[CHOOSE i \in renames : \A j \in renames : i <= j]
                .Arguments["name"].str
       ELSE IF td.Kind = TypeKindInterface
            THEN config.Java.Naming.InterfacePrefix \o td.Name
       ELSE IF td.Kind \in {TypeKindObject, TypeKindInputObject}
            THEN td.Name \o config.Java.Naming.ClassSuffix
       ELSE td.Name

----------------------------------------------------------------------------
(* The schemas the generator is run on.                                    *)

\* the default collection type and no scalar override
GeneratorConfigs ==
    {Config(n, "List", g, <<>>, l) :
        n \in {NullableWrapper, NullableOptional}, g \in Namings,
        l \in LombokConfigs}

Skip == DirectiveDef(DirectiveSkip, NoArguments)

Lombok(exclude, include) ==
    DirectiveDef(DirectiveLombok,
                 [exclude |-> ListValue(exclude), include |-> ListValue(include)])

LombokDirectiveLists ==
    {<<>>,
     <<DirectiveDef(DirectiveLombok, NoArguments)>>,
     <<Lombok(<<"data">>, <<>>)>>,
     <<Lombok(<<>>, <<"toString">>)>>,
     <<Lombok(<<"data", "getter">>, <<"data">>)>>,
     <<Lombok(<<"builder", "setter", "unknown">>, <<"getter", "Data">>)>>,
     <<Skip, Lombok(<<"data">>, <<>>), Lombok(<<>>, <<"data", "value">>)>>}

\* every key a map of enabled annotations can hold here
LombokKeys ==
    <<"data", "builder", "noArgsConstructor", "allArgsConstructor", "getter",
      "setter", "toString", "equalsAndHashCode", "value", "superBuilder",
      "unknown", "Data">>

Reverse(seq) == [i \in 1..Len(seq) |-> seq[Len(seq) + 1 - i]]

\* orders in which a range can meet the keys
MapOrders == {LombokKeys, Reverse(LombokKeys)}

JavaType(type, imports) ==
    DirectiveDef(DirectiveJavaType,
                 [type |-> StringValue(type), imports |-> ListValue(imports)])

\* a field whose reference carries neither a name nor an element
InvalidField == FieldDef("broken", <<NamedRef("", FALSE)>>, <<>>)

FieldPool ==
    {FieldDef("id", <<NamedRef("ID", TRUE)>>, <<>>),
     FieldDef("user_name", <<NamedRef("String", FALSE)>>, <<>>),
     FieldDef("active", <<NamedRef("Boolean", TRUE)>>, <<>>),
     FieldDef("class", <<ListRef(NamedRef("Int", TRUE), FALSE)>>, <<>>),
     FieldDef("secret", <<NamedRef("String", FALSE)>>, <<Skip>>),
     FieldDef("hidden", <<NamedRef("DateTime", TRUE)>>,
              <<JavaType("java.time.Instant", <<"java.time.Instant">>), Skip>>),
     FieldDef("meta", <<NamedRef("__Type", FALSE)>>, <<>>),
     FieldDef("metas", <<ListRef(NamedRef("__Field", TRUE), TRUE)>>,
              <<JavaType("Object", <<>>)>>),
     FieldDef("untyped", <<>>, <<>>),
     InvalidField}

RECURSIVE FieldLists(_)
FieldLists(n) ==
    IF n = 0 THEN {<<>>}
    ELSE FieldLists(n - 1) \cup
         {Append(fs, f) : fs \in {l \in FieldLists(n - 1) : Len(l) = n - 1},
                          f \in FieldPool}

EnumValueNames == <<"ACTIVE", "PENDING", "INACTIVE", "ARCHIVED", "DELETED">>

\* the first n value names, the ones in skipped carrying the skip directive
EnumValues(n, skipped) ==
    [i \in 1..n |-> EnumValueDef(EnumValueNames[i],
                                 IF i \in skipped THEN <<Skip>> ELSE <<>>)]

EnumValueLists ==
    {EnumValues(n, skipped) :
        n \in 0..MaxEnumValues, skipped \in SUBSET (1..MaxEnumValues)}

\* the types GenerateType is asked for: every field list as an object and
\* as an interface, every enum, a union, a scalar, an input object, and one
\* type of each kind that carries the skip directive
SomeFields ==
    <<FieldDef("id", <<NamedRef("ID", TRUE)>>, <<>>),
      FieldDef("active", <<NamedRef("Boolean", TRUE)>>, <<>>)>>

Deprecated == DirectiveDef(DirectiveDeprecated, [reason |-> StringValue("old")])

Annotation(value, imports) ==
    DirectiveDef(DirectiveAnnotation,
                 [value |-> StringValue(value), imports |-> ListValue(imports)])

\* fields with annotations and imports of their own
AnnotatedFields ==
    <<FieldDef("id", <<NamedRef("ID", TRUE)>>, <<Deprecated>>),
      FieldDef("created", <<NamedRef("DateTime", TRUE)>>,
               <<Annotation("@JsonProperty",
                            <<"com.fasterxml.jackson.annotation.JsonProperty",
                              "java.lang.String", "com.example.Other", "">>)>>)>>

\* the directives of a class: a lombok directive, custom annotations, the
\* deprecation marker
ClassDirectiveLists ==
    LombokDirectiveLists
    \cup {<<Annotation("@Data", <<"lombok.Data">>)>>,
          <<Deprecated, Annotation("@Entity", <<"jakarta.persistence.Entity">>),
            Annotation("", <<"java.util.List">>), Annotation("@Audited", <<>>)>>}

TypePool ==
    {TypeDef("User", k, fs, <<>>, <<"Node">>, <<>>) :
        k \in {TypeKindObject, TypeKindInterface}, fs \in FieldLists(MaxFields)}
    \cup {TypeDef("Customer", k, AnnotatedFields, <<>>, <<>>, directives) :
            k \in {TypeKindObject, TypeKindInputObject},
            directives \in ClassDirectiveLists}
    \cup {TypeDef("Status", TypeKindEnum, <<>>, vs, <<>>, <<>>) : vs \in EnumValueLists}
    \cup {TypeDef("SearchResult", TypeKindUnion, <<>>, <<>>, <<>>, <<>>),
          TypeDef("Money", TypeKindScalar, <<>>, <<>>, <<>>, <<>>),
          TypeDef("UserInput", TypeKindInputObject, SomeFields, <<>>, <<>>, <<>>)}
    \cup {TypeDef("Hidden", k, SomeFields, EnumValues(2, {}), <<>>, <<Skip>>) :
            k \in {TypeKindObject, TypeKindInputObject, TypeKindInterface,
                   TypeKindEnum, TypeKindUnion, TypeKindScalar}}

\* the types of the schemas Generate is run on
LoopPool ==
    {TypeDef("User", TypeKindObject,
             <<FieldDef("id", <<NamedRef("ID", TRUE)>>, <<>>),
               FieldDef("posts", <<ListRef(NamedRef("Post", FALSE), FALSE)>>, <<>>)>>,
             <<>>, <<"Node", "Entity">>, <<>>),
     TypeDef("Broken", TypeKindObject, <<InvalidField>>, <<>>, <<>>, <<>>),
     TypeDef("Hidden", TypeKindInputObject, SomeFields, <<>>, <<>>, <<Skip>>),
     TypeDef("Node", TypeKindInterface,
             Append(SomeFields, FieldDef("created", <<NamedRef("DateTime", TRUE)>>, <<>>)),
             <<>>, <<"Entity">>, <<>>),
     TypeDef("Entity", TypeKindInterface, <<>>, <<>>, <<>>,
             <<DirectiveDef(DirectiveJavaName, [name |-> StringValue("Identified")])>>),
     TypeDef("Status", TypeKindEnum, <<>>, EnumValues(3, {2}), <<>>, <<>>),
     TypeDef("INode", TypeKindEnum, <<>>, EnumValues(1, {}), <<>>, <<>>),
     TypeDef("Money", TypeKindScalar, <<>>, <<>>, <<>>, <<>>)}

\* Schema.Types is a map: Generate ranges over it in any order, and no two
\* types share a name.
RECURSIVE Schemas(_)
Schemas(n) ==
    IF n = 0 THEN {<<>>}
    ELSE Schemas(n - 1) \cup
         {ts \in {Append(l, td) : l \in {k \in Schemas(n - 1) : Len(k) = n - 1},
                                  td \in LoopPool} :
            \A i \in 1..(Len(ts) - 1) : ts[i].Name # ts[Len(ts)].Name}

----------------------------------------------------------------------------
(* The generator as a state machine: a generator is constructed and is     *)
(* asked for one type (GenerateType) or for all types of a schema          *)
(* (Generate, one type per step).                                          *)

\* only the class generator ranges over the map, and only with Lombok
\* enabled: every order gives the same call otherwise
VisitOrders(td) ==
    IF td.Kind \in {TypeKindObject, TypeKindInputObject} /\ config.Features.Lombok.Enabled
    THEN MapOrders ELSE {LombokKeys}

ErrorCollection == "ERROR_COLLECTION"

InitGen ==
    /\ config \in GeneratorConfigs
    /\ tm = NewTypeMapper(config)
    /\ op = "NewGenerator"
    /\ typeRef = <<>>
    /\ mapRet = NoMapRet
    /\ schema = <<>>
    /\ idx = 0
    /\ files = <<>>
    /\ errs = <<>>
    /\ genRet = NoGenRet
    /\ typeName = ""
    /\ arg = <<>>
    /\ ret = <<>>

\* GenerateType(schema, typeName); a name the schema lacks is asked of the
\* schema that holds the union
GenerateType ==
    /\ op = "NewGenerator"
    /\ \E td \in TypePool :
         \E name \in {td.Name} \cup (IF td.Kind = TypeKindUnion THEN {"Missing"} ELSE {}) :
         \E visit \in VisitOrders(td) :
            /\ schema' = <<td>>
            /\ typeName' = name
            /\ genRet' =
                 IF name \notin DOMAIN SchemaTypes(<<td>>)
                 THEN [files |-> <<>>, err |-> GenerateError]
                 ELSE With(NewContext(config, <<td>>), LAMBDA ctx :
                          With(generateType(ctx, ctx.Schema[name], visit), LAMBDA made :
                              [files |-> made.file, err |-> made.err]))
    /\ op' = "GenerateType"
    /\ UNCHANGED <<config, tm, typeRef, mapRet, idx, files, errs, arg, ret>>

\* Generate(schema): the context and the empty collections
GenerateBegin ==
    /\ op = "NewGenerator"
    /\ schema' \in Schemas(MaxTypes)
    /\ idx' = 0
    /\ files' = <<>>
    /\ errs' = <<>>
    /\ op' = "Generate"
    /\ UNCHANGED <<config, tm, typeRef, mapRet, genRet, typeName, arg, ret>>

\* one iteration of Generate's loop over schema.Types
GenerateStep ==
    /\ op = "Generate"
    /\ idx < Len(schema)
    /\ \E ctx \in {NewContext(config, schema)} :
       \E visit \in VisitOrders(schema[idx + 1]) :
       \E made \in {generateType(ctx, schema[idx + 1], visit)} :
          /\ errs' = IF made.err # NoError THEN Append(errs, made.err) ELSE errs
          /\ files' = IF made.err = NoError /\ made.file # <<>>
                      THEN Append(files, made.file[1]) ELSE files
    /\ idx' = idx + 1
    /\ UNCHANGED <<config, tm, op, typeRef, mapRet, schema, genRet, typeName, arg, ret>>

\* Generate returns the files, with the collected errors if there are any
GenerateReturn ==
    /\ op = "Generate"
    /\ idx = Len(schema)
    /\ genRet' = [files |-> files,
                  err |-> IF errs # <<>> THEN ErrorCollection ELSE NoError]
    /\ op' = "GenerateDone"
    /\ UNCHANGED <<config, tm, typeRef, mapRet, schema, idx, files, errs, typeName, arg, ret>>

NextGen == GenerateType \/ GenerateBegin \/ GenerateStep \/ GenerateReturn

SpecGen == InitGen /\ [][NextGen]_vars

----------------------------------------------------------------------------
(* Properties of the generators and the orchestrator, stated over SpecGen. *)

\* the lines of the given kind in a generated text, in order
LinesOf(text, kind) == SelectSeq(text, LAMBDA l : l[1] = kind)

CarriesSkip(directives) ==
    \E i \in 1..Len(directives) : directives[i].Name = DirectiveSkip

\* a GenerateType call for the type of the schema has returned a unit
Generated(kinds) ==
    /\ op = "GenerateType"
    /\ schema[1].Kind \in kinds
    /\ genRet.files # <<>>

\* C4: in every generated enum that retains at least one value, the last
\* retained value is followed by ';' and every earlier retained value by
\* ',', whichever values carry skip, also when the trailing declared values
\* are the skipped ones; skipped values do not appear in the body.
C4_EnumTerminatorOnLastRetained ==
    Generated({TypeKindEnum})
    => LET values == LinesOf(genRet.files[1].Content, "value")
           retained == SelectSeq(schema[1].EnumValues,
                                 LAMBDA v : ~CarriesSkip(v.Directives))
       IN /\ Len(values) = Len(retained)
          /\ \A i \in 1..Len(values) :
                /\ values[i][2] = GetEnumValueName(retained[i])
                /\ values[i][3] = IF i = Len(values) THEN ";" ELSE ","

\* a type whose generation fails: it is generated, and one of its fields
\* has a reference the mapper cannot map
FailsToGenerate(td) ==
    /\ td.Kind \in {TypeKindObject, TypeKindInputObject, TypeKindInterface}
    /\ ~CarriesSkip(td.Directives)
    /\ \E i \in 1..Len(td.Fields) :
          /\ td.Fields[i].Type # <<>>
          /\ StructurallyInvalid(td.Fields[i].Type[1])
          /\ ExtractJavaTypeDirective(td.Fields[i].Directives) = <<>>

\* a type whose generation yields a unit
GeneratesUnit(td) ==
    /\ td.Kind # TypeKindScalar
    /\ ~CarriesSkip(td.Directives)
    /\ ~FailsToGenerate(td)

\* C5: for a schema with N types that generate successfully and one type
\* whose generation fails, Generate returns exactly N units together with
\* exactly 1 collected error, the units alongside the error.
C5_PartialFailureKeepsUnits ==
    (/\ op = "GenerateDone"
     /\ Cardinality({i \in 1..Len(schema) : FailsToGenerate(schema[i])}) = 1)
    => /\ Len(genRet.files) =
            Cardinality({i \in 1..Len(schema) : GeneratesUnit(schema[i])})
       /\ Len(errs) = 1
       /\ genRet.err = ErrorCollection

\* a field the generators keep: it carries no skip directive and its
\* innermost named type does not begin with "__"
KeptField(f) ==
    /\ ~CarriesSkip(f.Directives)
    /\ ~(f.Type # <<>> /\ HasPrefix(NamedType(f.Type[1]), "__"))

JavaFieldName(f) == EscapeJavaKeyword(GetFieldName(config.Java.Naming, f))

\* the lines of the given kind are one per kept field, in declaration order
OnePerKeptField(content, kind, kept, Name(_, _)) ==
    LET lines == LinesOf(content, kind)
    IN /\ Len(lines) = Len(kept)
       /\ \A i \in 1..Len(lines) : lines[i][2] = Name(kept[i], lines[i][3])

FieldLineName(f, javaType) == JavaFieldName(f)
GetterLineName(f, javaType) ==
    GetGetterName(JavaFieldName(f), javaType \in {"boolean", "Boolean"})
SetterLineName(f, javaType) == GetSetterName(JavaFieldName(f))

\* C6: in a generated class a field that carries skip, or whose innermost
\* named type begins with "__", contributes no field declaration, getter or
\* setter, and in a generated interface no method signature, whatever its
\* other directives; every other field contributes exactly one, in
\* declaration order.
C6_SkippedFieldsContributeNothing ==
    Generated({TypeKindObject, TypeKindInputObject, TypeKindInterface})
    => LET content == genRet.files[1].Content
           kept == SelectSeq(schema[1].Fields, KeptField)
           none == <<>>
       IN IF schema[1].Kind = TypeKindInterface
          THEN /\ OnePerKeptField(content, "method", kept, GetterLineName)
               /\ OnePerKeptField(content, "field", none, FieldLineName)
          ELSE /\ OnePerKeptField(content, "field", kept, FieldLineName)
               /\ OnePerKeptField(content, "method", none, GetterLineName)
               /\ OnePerKeptField(content, "getter",
                     IF NeedsGettersSetters(config.Features.Lombok)
                     THEN kept ELSE none, GetterLineName)
               /\ OnePerKeptField(content, "setter",
                     IF NeedsGettersSetters(config.Features.Lombok)
                     THEN kept ELSE none, SetterLineName)

\* a class with an introspection-typed field before a kept one
C6_Witness ==
    /\ Generated({TypeKindObject})
    /\ Len(schema[1].Fields) = 2
    /\ schema[1].Fields[1].Name = "metas"
    /\ schema[1].Fields[2].Name = "active"
    /\ LinesOf(genRet.files[1].Content, "field")
         = <<Line("field", "active", "boolean")>>
    /\ LinesOf(genRet.files[1].Content, "getter")
         = <<Line("getter", "isActive", "boolean")>>

\* the text the generator of td's kind returns for td
GeneratorText(td) ==
    LET ctx == NewContext(config, schema)
    IN IF td.Kind \in {TypeKindObject, TypeKindInputObject}
       THEN ClassGenerate(ctx, td, LombokKeys)
       ELSE IF td.Kind = TypeKindInterface THEN InterfaceGenerate(ctx, td)
       ELSE IF td.Kind = TypeKindEnum THEN EnumGenerate(ctx, td)
       ELSE UnionGenerate(ctx, td)

\* a type that yields no unit: it carries skip or is of scalar kind
YieldsNothing(td) == CarriesSkip(td.Directives) \/ td.Kind = TypeKindScalar

\* C7: a type of any generated kind that carries the skip directive yields
\* empty text from its generator, and the orchestrator produces no unit and
\* records no error for it; scalar-kind types likewise produce neither.
C7_SkippedTypesYieldNothing ==
    /\ (op = "GenerateType" /\ typeName = schema[1].Name /\ YieldsNothing(schema[1]))
       => /\ genRet.files = <<>>
          /\ genRet.err = NoError
          /\ (schema[1].Kind # TypeKindScalar
              => GeneratorText(schema[1]) = Text(<<>>))
    /\ op \in {"Generate", "GenerateDone"}
       => /\ \A i \in 1..Len(files) : ~YieldsNothing(files[i].TypeDef)
          /\ Len(files) + Len(errs)
               = Cardinality({i \in 1..idx : ~YieldsNothing(schema[i])})

\* a skipped enum was asked for and nothing came back
C7_Witness ==
    /\ op = "GenerateType"
    /\ schema[1].Kind = TypeKindEnum
    /\ CarriesSkip(schema[1].Directives)
    /\ genRet = [files |-> <<>>, err |-> NoError]

----------------------------------------------------------------------------
(* The annotation generators as a state machine: the generators are        *)
(* constructed over a configuration and one of their functions is called.  *)

DefaultMapperConfig ==
    Config(NullableWrapper, "List", [FieldCase |-> FieldCaseCamel, ClassSuffix |-> "",
                                     InterfacePrefix |-> ""],
           <<>>, LombokConfig(FALSE, TRUE, FALSE, FALSE))

\* an argument that is absent or has one of the values
Opt(key, values) == {<<>>} \cup {key :> v : v \in values}

ConstraintArguments ==
    {a @@ b @@ c @@ d @@ e @@ f @@ g @@ h :
        a \in Opt("minLength", {IntValue(3)}),
        b \in Opt("maxLength", {IntValue(10)}),
        c \in Opt("min", {IntValue(0)}),
        d \in Opt("max", {IntValue(120)}),
        e \in Opt("pattern", {StringValue(""), StringValue("a\"b")}),
        f \in Opt("notNull", {BoolValue(TRUE)}),
        g \in Opt("notBlank", {BoolValue(FALSE), BoolValue(TRUE)}),
        h \in Opt("email", {BoolValue(TRUE)})}

Constraint(arguments) == DirectiveDef(DirectiveConstraint, arguments)

\* no directive, one constraint directive, facets of the wrong type, and a
\* second constraint directive behind the first
ConstraintDirectiveLists ==
    {<<>>} \cup {<<Constraint(arguments)>> : arguments \in ConstraintArguments}
    \cup {<<Constraint([minLength |-> StringValue("3"), max |-> FloatValue(7),
                        email |-> StringValue("true")])>>,
          <<Skip, Constraint([maxLength |-> IntValue(10)]),
            Constraint([min |-> IntValue(0), email |-> BoolValue(TRUE)])>>}

ConstrainedFields ==
    {FieldDef("email", <<NamedRef("String", FALSE)>>, directives) :
        directives \in ConstraintDirectiveLists}

AnnotationConfigs ==
    {[DefaultMapperConfig EXCEPT
        !.Features.Lombok = [LombokConfig(e, d, g, s) EXCEPT !.Builder = b,
                                                             !.NoArgsConstructor = n]] :
        e \in BOOLEAN, d \in BOOLEAN, g \in BOOLEAN, s \in BOOLEAN,
        b \in BOOLEAN, n \in BOOLEAN}
    \cup {[DefaultMapperConfig EXCEPT !.Features.Validation = ValidationConfig(e, p, n)] :
            e \in BOOLEAN, p \in {ValidationJakarta, ValidationJavax, ""},
            n \in BOOLEAN}

InitAnnotations ==
    /\ config \in AnnotationConfigs
    /\ tm = NewTypeMapper(config)
    /\ op = "NewGenerators"
    /\ typeRef = <<>>
    /\ mapRet = NoMapRet
    /\ schema = <<>>
    /\ idx = 0
    /\ files = <<>>
    /\ errs = <<>>
    /\ genRet = NoGenRet
    /\ typeName = ""
    /\ arg = <<>>
    /\ ret = <<>>

\* LombokGenerator.GenerateTypeAnnotations(typeDef)
DoLombokTypeAnnotations ==
    /\ op = "NewGenerators"
    /\ \E directives \in LombokDirectiveLists : \E visit \in MapOrders :
          /\ arg' = directives
          /\ ret' = LombokGenerateTypeAnnotations(config.Features.Lombok,
                                                  directives, visit)
    /\ op' = "LombokTypeAnnotations"
    /\ UNCHANGED <<config, tm, typeRef, mapRet, schema, idx, files, errs, genRet,
                   typeName>>

\* LombokGenerator.NeedsGettersSetters()
DoNeedsGettersSetters ==
    /\ op = "NewGenerators"
    /\ arg' = <<>>
    /\ ret' = NeedsGettersSetters(config.Features.Lombok)
    /\ op' = "NeedsGettersSetters"
    /\ UNCHANGED <<config, tm, typeRef, mapRet, schema, idx, files, errs, genRet,
                   typeName>>

\* ValidationGenerator.GenerateFieldAnnotations(field, nonNull)
DoValidationFieldAnnotations ==
    /\ op = "NewGenerators"
    /\ \E field \in ConstrainedFields : \E nonNull \in BOOLEAN :
          /\ arg' = [field |-> field, nonNull |-> nonNull]
          /\ ret' = ValidationGenerateFieldAnnotations(config.Features.Validation,
                                                       field, nonNull)
    /\ op' = "ValidationFieldAnnotations"
    /\ UNCHANGED <<config, tm, typeRef, mapRet, schema, idx, files, errs, genRet,
                   typeName>>

\* fields that share an import, a skipped field and an introspection field
\* with imports of their own, a list, and a constrained field
ImportFields ==
    <<FieldDef("created", <<NamedRef("DateTime", TRUE)>>, <<>>),
      FieldDef("updated", <<NamedRef("DateTime", FALSE)>>, <<>>),
      FieldDef("secret", <<NamedRef("String", FALSE)>>,
               <<JavaType("java.util.UUID", <<"java.util.UUID">>), Skip>>),
      FieldDef("meta", <<NamedRef("__Type", FALSE)>>,
               <<JavaType("Object", <<"java.net.URI">>)>>),
      FieldDef("tags", <<ListRef(NamedRef("String", TRUE), TRUE)>>, <<>>),
      FieldDef("email", <<NamedRef("String", TRUE)>>,
               <<Constraint([notNull |-> BoolValue(TRUE), email |-> BoolValue(TRUE),
                             maxLength |-> IntValue(10)]),
                 Annotation("@Column", <<"jakarta.persistence.Column",
                                         "java.lang.annotation.Target">>)>>)>>

\* the types generated twice: a class under every class directive list, a
\* class with the import fields, an interface, an enum and a union
TwicePool ==
    {TypeDef("Customer", TypeKindObject, AnnotatedFields, <<>>, <<>>, directives) :
        directives \in ClassDirectiveLists}
    \cup {TypeDef("Order", TypeKindInputObject, ImportFields, <<>>, <<>>, <<>>)}
    \cup {TypeDef("Node", TypeKindInterface, SomeFields, <<>>, <<>>, <<>>),
          TypeDef("Status", TypeKindEnum, <<>>, EnumValues(3, {2}), <<>>, <<>>),
          TypeDef("SearchResult", TypeKindUnion, <<>>, <<>>, <<>>, <<>>)}

\* two generateType calls for the same type on the same generator; each
\* call ranges over the map of enabled Lombok annotations in an order of
\* its own
DoGenerateTwice ==
    /\ op = "NewGenerators"
    /\ \E td \in TwicePool : \E first \in VisitOrders(td) : \E second \in VisitOrders(td) :
          \E ctx \in {NewContext(config, <<td>>)} :
             /\ arg' = td
             /\ ret' = <<generateType(ctx, td, first), generateType(ctx, td, second)>>
    /\ op' = "GenerateTwice"
    /\ UNCHANGED <<config, tm, typeRef, mapRet, schema, idx, files, errs, genRet,
                   typeName>>

NextAnnotations ==
    DoLombokTypeAnnotations \/ DoNeedsGettersSetters \/ DoValidationFieldAnnotations
    \/ DoGenerateTwice

SpecAnnotations == InitAnnotations /\ [][NextAnnotations]_vars

----------------------------------------------------------------------------
(* Properties of the annotation generators, stated over SpecAnnotations.   *)

Range(seq) == {seq[i] : i \in 1..Len(seq)}

NoDuplicates(seq) == Cardinality(Range(seq)) = Len(seq)

\* a GenerateTypeAnnotations call of the enabled Lombok generator returned
LombokAnnotated ==
    /\ op = "LombokTypeAnnotations"
    /\ config.Features.Lombok.Enabled

\* the configured boolean of an annotation key; keys without one are off
Configured(name) ==
    CASE name = "data" -> config.Features.Lombok.Data
      [] name = "builder" -> config.Features.Lombok.Builder
      [] name = "noArgsConstructor" -> config.Features.Lombok.NoArgsConstructor
      [] name = "allArgsConstructor" -> config.Features.Lombok.AllArgsConstructor
      [] name = "getter" -> config.Features.Lombok.Getter
      [] name = "setter" -> config.Features.Lombok.Setter
      [] OTHER -> FALSE

\* the exclude and include lists of the element's lombok directive
LombokLists(directives) ==
    IF ExtractLombokDirective(directives) = <<>>
    THEN [Exclude |-> <<>>, Include |-> <<>>]
    ELSE ExtractLombokDirective(directives)[1]

\* C15: the set of Lombok annotations emitted for a type is obtained from
\* the configured per-annotation booleans by setting every annotation of
\* the directive's exclude list to false and then every annotation of its
\* include list to true; an annotation named in both lists is emitted.
C15_LombokSetIsConfigThenExcludeThenInclude ==
    LombokAnnotated
    => LET lists == LombokLists(arg)
           on == {name \in DOMAIN LombokAnnotations :
                     \/ name \in Range(lists.Include)
                     \/ name \notin Range(lists.Exclude) /\ Configured(name)}
       IN /\ Range(ret.annotations) = {LombokAnnotations[name].Name : name \in on}
          /\ Range(ret.imports) = {LombokAnnotations[name].Import : name \in on}
          /\ NoDuplicates(ret.annotations)
          /\ NoDuplicates(ret.imports)

\* "data" is excluded and included by the same directive, and is emitted
C15_Witness ==
    /\ LombokAnnotated
    /\ ~config.Features.Lombok.Data
    /\ "data" \in Range(LombokLists(arg).Exclude)
    /\ "data" \in Range(LombokLists(arg).Include)
    /\ "@Data" \in Range(ret.annotations)

\* a GenerateFieldAnnotations call of the validation generator returned
ValidationAnnotated == op = "ValidationFieldAnnotations"

\* the annotations a call returned, each paired with its import
Emitted(result) ==
    {<<result.annotations[i], result.imports[i]>> : i \in 1..Len(result.annotations)}

\* the namespace the configuration selects
ConfiguredNamespace ==
    IF config.Features.Validation.Package = ValidationJavax
    THEN "javax.validation.constraints" ELSE "jakarta.validation.constraints"

\* the annotations the populated facets of a constraint call for, @NotNull
\* left aside
FacetAnnotations(c) ==
    (IF c.MinLength # <<>> /\ c.MaxLength # <<>>
     THEN {<<"@Size(min = " \o Itoa(c.MinLength[1]) \o ", max = "
             \o Itoa(c.MaxLength[1]) \o ")", "Size">>}
     ELSE IF c.MinLength # <<>>
     THEN {<<"@Size(min = " \o Itoa(c.MinLength[1]) \o ")", "Size">>}
     ELSE IF c.MaxLength # <<>>
     THEN {<<"@Size(max = " \o Itoa(c.MaxLength[1]) \o ")", "Size">>}
     ELSE {})
    \cup (IF c.Min # <<>> THEN {<<"@Min(" \o Itoa(c.Min[1]) \o ")", "Min">>} ELSE {})
    \cup (IF c.Max # <<>> THEN {<<"@Max(" \o Itoa(c.Max[1]) \o ")", "Max">>} ELSE {})
    \cup (IF c.Pattern # ""
          THEN {<<"@Pattern(regexp = \"" \o EscapeQuotes(c.Pattern) \o "\")", "Pattern">>}
          ELSE {})
    \cup (IF c.NotBlank THEN {<<"@NotBlank", "NotBlank">>} ELSE {})
    \cup (IF c.Email THEN {<<"@Email", "Email">>} ELSE {})

\* C17: with validation enabled, the constraint annotations emitted for a
\* field are exactly those of the populated facets of its constraint
\* directive: @Size iff a minimum or maximum length is given (with 'min',
\* 'max', or 'min' then 'max'), and @Min, @Max, @Pattern, @NotBlank, @Email
\* each iff its facet is set, each once and with its import from the
\* configured namespace; with validation disabled nothing is emitted.
C17_ConstraintAnnotationsAreFacets ==
    ValidationAnnotated
    => IF ~config.Features.Validation.Enabled
       THEN ret.annotations = <<>> /\ ret.imports = <<>>
       ELSE LET constraint == ExtractConstraintDirective(arg.field.Directives)
                facets == IF constraint = <<>> THEN {}
                          ELSE FacetAnnotations(constraint[1])
                others == {i \in 1..Len(ret.annotations) :
                              ret.annotations[i] # "@NotNull"}
            IN /\ Len(ret.imports) = Len(ret.annotations)
               /\ {<<ret.annotations[i], ret.imports[i]>> : i \in others}
                    = {<<f[1], ConfiguredNamespace \o "." \o f[2]>> : f \in facets}
               /\ Cardinality(others) = Cardinality(facets)

\* only a maximum length is given, under the javax namespace
C17_Witness ==
    /\ ValidationAnnotated
    /\ config.Features.Validation.Enabled
    /\ config.Features.Validation.Package = ValidationJavax
    /\ arg.field.Directives = <<Constraint([maxLength |-> IntValue(10)])>>
    /\ <<"@Size(max = 10)", "javax.validation.constraints.Size">> \in Emitted(ret)

----------------------------------------------------------------------------
(* internal/config, pkg/api and cmd/gql2j: how a run arrives at its        *)
(* configuration.  A YAML document is the record of the keys it sets, each *)
(* a pointer; only the keys the Java version and the validation feature    *)
(* depend on are kept.                                                     *)

ConfigError == "CONFIG"

DefaultConfig ==
    [DefaultMapperConfig EXCEPT !.Output.Package = "com.example.model",
                                !.Features.Lombok.NoArgsConstructor = TRUE]

SupportedJavaVersions == {8, 11, 17, 21}

isValidJavaVersion(version) == version \in SupportedJavaVersions

isValidValidationPackage(pkg) == pkg \in {ValidationJakarta, ValidationJavax}

Yaml(version, enabled, package) ==
    [version |-> version, enabled |-> enabled, package |-> package]

\* yaml.Unmarshal(data, cfg): the keys of the document over the defaults
Unmarshal(cfg, yaml) ==
    [cfg EXCEPT
        !.Java.Version = IF yaml.version # <<>> THEN yaml.version[1] ELSE @,
        !.Features.Validation.Enabled = IF yaml.enabled # <<>> THEN yaml.enabled[1] ELSE @,
        !.Features.Validation.Package = IF yaml.package # <<>> THEN yaml.package[1] ELSE @]

\* Config.Validate, for the fields of the model
Validate(c) ==
    IF \/ ~isValidJavaVersion(c.Java.Version)
       \/ c.Features.Validation.Enabled
          /\ ~isValidValidationPackage(c.Features.Validation.Package)
    THEN ConfigError ELSE NoError

applyVersionOverrides(c) ==
    IF /\ c.Java.Version \in DOMAIN c.JavaVersionOverrides
       /\ c.JavaVersionOverrides[c.Java.Version].Features.Validation.Package # ""
    THEN [c EXCEPT !.Features.Validation.Package =
                      c.JavaVersionOverrides[c.Java.Version].Features.Validation.Package]
    ELSE c

\* Parse returns (cfg, err); cfg is a pointer
Parse(yaml) ==
    IF Validate(Unmarshal(DefaultConfig, yaml)) # NoError
    THEN [cfg |-> <<>>, err |-> ConfigError]
    ELSE [cfg |-> <<applyVersionOverrides(Unmarshal(DefaultConfig, yaml))>>,
          err |-> NoError]

Options(javaVersion, enableValidation, validationPackage) ==
    [JavaVersion |-> javaVersion, EnableValidation |-> enableValidation,
     ValidationPackage |-> validationPackage]

\* the option overrides of the API's loadConfig
loadConfigOverrides(cfg, opts) ==
    [cfg EXCEPT
        !.Java.Version = IF opts.JavaVersion # 0 THEN opts.JavaVersion ELSE @,
        !.Features.Validation.Enabled = IF opts.EnableValidation THEN TRUE ELSE @,
        !.Features.Validation.Package =
            IF opts.ValidationPackage # "" THEN opts.ValidationPackage ELSE @]

\* the flag overrides of the command line
applyOverrides(cfg, javaVersion, validation, validationDisable, validationPkg) ==
    [cfg EXCEPT
        !.Java.Version = IF javaVersion # 0 THEN javaVersion ELSE @,
        !.Features.Validation.Enabled =
            IF validationDisable THEN FALSE ELSE IF validation THEN TRUE ELSE @,
        !.Features.Validation.Package = IF validationPkg # "" THEN validationPkg ELSE @]

YamlDocuments ==
    {Yaml(v, e, p) :
        v \in {<<>>, <<8>>, <<11>>, <<17>>, <<9>>},
        e \in {<<>>, <<TRUE>>, <<FALSE>>},
        p \in {<<>>, <<ValidationJakarta>>, <<ValidationJavax>>, <<"hibernate">>}}

OptionVersions == {0, 8, 21}

OptionPackages == {"", ValidationJakarta, ValidationJavax}

\* a non-null field with a constraint
ValidatedField ==
    FieldDef("email", <<NamedRef("String", TRUE)>>,
             <<Constraint([email |-> BoolValue(TRUE), maxLength |-> IntValue(10)])>>)

InitConfig ==
    /\ config = DefaultConfig
    /\ tm = NewTypeMapper(config)
    /\ op = "Start"
    /\ typeRef = <<>>
    /\ mapRet = NoMapRet
    /\ schema = <<>>
    /\ idx = 0
    /\ files = <<>>
    /\ errs = <<>>
    /\ genRet = NoGenRet
    /\ typeName = ""
    /\ arg = <<>>
    /\ ret = <<>>

\* config.Load / config.Parse of a configuration file
DoParse ==
    /\ op = "Start"
    /\ \E yaml \in YamlDocuments : \E made \in {Parse(yaml)} :
          /\ arg' = yaml
          /\ ret' = made.err
          /\ config' = IF made.err = NoError THEN made.cfg[1] ELSE config
          /\ op' = IF made.err = NoError THEN "Parsed" ELSE "ParseFailed"
    /\ UNCHANGED <<tm, typeRef, mapRet, schema, idx, files, errs, genRet, typeName>>

\* no configuration file: config.DefaultConfig()
DoDefaultConfig ==
    /\ op = "Start"
    /\ config' = DefaultConfig
    /\ op' = "Defaulted"
    /\ UNCHANGED <<tm, typeRef, mapRet, schema, idx, files, errs, genRet, typeName,
                   arg, ret>>

\* the rest of the API's loadConfig
DoLoadConfig ==
    /\ op \in {"Parsed", "Defaulted"}
    /\ \E v \in OptionVersions : \E e \in BOOLEAN : \E p \in OptionPackages :
          /\ arg' = Options(v, e, p)
          /\ config' = loadConfigOverrides(config, Options(v, e, p))
    /\ op' = "Loaded"
    /\ UNCHANGED <<tm, typeRef, mapRet, schema, idx, files, errs, genRet, typeName,
                   ret>>

\* the command line's applyOverrides
DoApplyOverrides ==
    /\ op \in {"Parsed", "Defaulted"}
    /\ \E v \in OptionVersions : \E e \in BOOLEAN : \E d \in BOOLEAN :
       \E p \in OptionPackages :
          /\ arg' = <<v, e, d, p>>
          /\ config' = applyOverrides(config, v, e, d, p)
    /\ op' = "Loaded"
    /\ UNCHANGED <<tm, typeRef, mapRet, schema, idx, files, errs, genRet, typeName,
                   ret>>

\* the run generates the annotations of a field
DoFieldAnnotations ==
    /\ op = "Loaded"
    /\ arg' = ValidatedField
    /\ ret' = ValidationGenerateFieldAnnotations(
                  NewContext(config, <<>>).ValidationGen, ValidatedField, TRUE)
    /\ op' = "Annotated"
    /\ UNCHANGED <<config, tm, typeRef, mapRet, schema, idx, files, errs, genRet,
                   typeName>>

NextConfig ==
    DoParse \/ DoDefaultConfig \/ DoLoadConfig \/ DoApplyOverrides
    \/ DoFieldAnnotations

SpecConfig == InitConfig /\ [][NextConfig]_vars

\* C18: whenever the effective target Java version of a run is 8, the
\* validation imports are taken from javax.validation.constraints and not
\* from jakarta.validation.constraints, whether the version comes from the
\* parsed YAML configuration or is set afterwards through the API option
\* or the command-line flag.
C18_Java8ImportsJavax ==
    (op = "Annotated" /\ config.Java.Version = 8)
    => \A i \in 1..Len(ret.imports) :
          HasPrefix(ret.imports[i], "javax.validation.constraints.")

\* the names of the implements list of a class or of the extends list of an
\* interface, in order
InheritedNames(file) ==
    [i \in 1..Len(file.TypeDef.Interfaces) |->
        LinesOf(file.Content,
                IF file.TypeDef.Kind = TypeKindInterface
                THEN "extends" ELSE "implements")[i][2]]

\* C14: every name in the implements list of a generated class and in the
\* extends list of a generated interface is the Java name under which the
\* referenced interface is itself declared, also when that interface
\* carries a rename directive.
C14_InheritedNamesAreDeclaredNames ==
    op = "Generate"
    => \A f \in 1..Len(files) :
          \A i \in 1..Len(files[f].TypeDef.Interfaces) :
             files[f].TypeDef.Interfaces[i] \in DOMAIN SchemaTypes(schema)
             => InheritedNames(files[f])[i] =
                  GetTypeName(config.Java.Naming,
                              SchemaTypes(schema)[files[f].TypeDef.Interfaces[i]])

\* how many lines of the kind with the name a generated text has
Count(text, kind, name) ==
    Len(SelectSeq(text, LAMBDA l : l[1] = kind /\ l[2] = name))

\* C16: NeedsGettersSetters is true exactly when Lombok is disabled, or
\* enabled with Data off and not both Getter and Setter on; a generated
\* class has a manual getter and setter for each retained field exactly
\* when it is true; and with Lombok enabled and Data on the class has no
\* manual accessor and contains @Data and its import exactly once.
C16_AccessorsFromOneSource ==
    Generated({TypeKindObject, TypeKindInputObject})
    => LET content == genRet.files[1].Content
           lombok == config.Features.Lombok
           needed == \/ ~lombok.Enabled
                     \/ lombok.Enabled /\ ~lombok.Data
                        /\ ~(lombok.Getter /\ lombok.Setter)
           retained == Len(LinesOf(content, "field"))
       IN /\ NeedsGettersSetters(lombok) = needed
          /\ Len(LinesOf(content, "getter")) = (IF needed THEN retained ELSE 0)
          /\ Len(LinesOf(content, "setter")) = (IF needed THEN retained ELSE 0)
          /\ (lombok.Enabled /\ lombok.Data)
             => /\ LinesOf(content, "getter") = <<>>
                /\ LinesOf(content, "setter") = <<>>
                /\ Count(content, "annotation", "@Data") = 1
                /\ Count(content, "import", "lombok.Data") = 1

----------------------------------------------------------------------------
(* internal/parser: the directive extractors as a state machine.  An       *)
(* element's directives have been parsed and one extractor is called.      *)

JavaName(name) == DirectiveDef(DirectiveJavaName, [name |-> StringValue(name)])

DirectivePool ==
    {Skip,
     JavaName(""), JavaName("Renamed"), JavaName("Other"),
     JavaTypeOf("", <<"java.time.Instant">>), JavaTypeOf("long", <<>>),
     JavaTypeOf("java.time.Instant", <<"java.time.Instant">>),
     Collection(""), Collection("Set"), Collection("List"),
     Deprecated, DirectiveDef(DirectiveDeprecated, NoArguments),
     Constraint([min |-> IntValue(1)]), Constraint([notBlank |-> BoolValue(TRUE)]),
     Lombok(<<"data">>, <<>>), Lombok(<<>>, <<"builder">>),
     Annotation("@First", <<"a.First">>), Annotation("@Second", <<>>),
     Annotation("", <<"a.Third">>)}

RECURSIVE DirectiveLists(_)
DirectiveLists(n) ==
    IF n = 0 THEN {<<>>}
    ELSE DirectiveLists(n - 1) \cup
         {Append(ds, d) : ds \in {l \in DirectiveLists(n - 1) : Len(l) = n - 1},
                          d \in DirectivePool}

InitExtract ==
    /\ config = DefaultConfig
    /\ tm = NewTypeMapper(config)
    /\ op = "Parsed"
    /\ typeRef = <<>>
    /\ mapRet = NoMapRet
    /\ schema = <<>>
    /\ idx = 0
    /\ files = <<>>
    /\ errs = <<>>
    /\ genRet = NoGenRet
    /\ typeName = ""
    /\ arg = <<>>
    /\ ret = <<>>

DoExtractSkip ==
    /\ op = "Parsed"
    /\ \E ds \in DirectiveLists(MaxDirectives) :
          /\ arg' = ds
          /\ ret' = ExtractSkipDirective(ds)
    /\ op' = DirectiveSkip
    /\ UNCHANGED <<config, tm, typeRef, mapRet, schema, idx, files, errs, genRet,
                   typeName>>

DoExtractJavaName ==
    /\ op = "Parsed"
    /\ \E ds \in DirectiveLists(MaxDirectives) :
          /\ arg' = ds
          /\ ret' = ExtractJavaNameDirective(ds)
    /\ op' = DirectiveJavaName
    /\ UNCHANGED <<config, tm, typeRef, mapRet, schema, idx, files, errs, genRet,
                   typeName>>

DoExtractJavaType ==
    /\ op = "Parsed"
    /\ \E ds \in DirectiveLists(MaxDirectives) :
          /\ arg' = ds
          /\ ret' = ExtractJavaTypeDirective(ds)
    /\ op' = DirectiveJavaType
    /\ UNCHANGED <<config, tm, typeRef, mapRet, schema, idx, files, errs, genRet,
                   typeName>>

DoExtractDeprecated ==
    /\ op = "Parsed"
    /\ \E ds \in DirectiveLists(MaxDirectives) :
          /\ arg' = ds
          /\ ret' = ExtractDeprecatedDirective(ds)
    /\ op' = DirectiveDeprecated
    /\ UNCHANGED <<config, tm, typeRef, mapRet, schema, idx, files, errs, genRet,
                   typeName>>

DoExtractAnnotations ==
    /\ op = "Parsed"
    /\ \E ds \in DirectiveLists(MaxDirectives) :
          /\ arg' = ds
          /\ ret' = ExtractAnnotationDirectives(ds)
    /\ op' = DirectiveAnnotation
    /\ UNCHANGED <<config, tm, typeRef, mapRet, schema, idx, files, errs, genRet,
                   typeName>>

DoExtractConstraint ==
    /\ op = "Parsed"
    /\ \E ds \in DirectiveLists(MaxDirectives) :
          /\ arg' = ds
          /\ ret' = ExtractConstraintDirective(ds)
    /\ op' = DirectiveConstraint
    /\ UNCHANGED <<config, tm, typeRef, mapRet, schema, idx, files, errs, genRet,
                   typeName>>

DoExtractLombok ==
    /\ op = "Parsed"
    /\ \E ds \in DirectiveLists(MaxDirectives) :
          /\ arg' = ds
          /\ ret' = ExtractLombokDirective(ds)
    /\ op' = DirectiveLombok
    /\ UNCHANGED <<config, tm, typeRef, mapRet, schema, idx, files, errs, genRet,
                   typeName>>

DoExtractCollection ==
    /\ op = "Parsed"
    /\ \E ds \in DirectiveLists(MaxDirectives) :
          /\ arg' = ds
          /\ ret' = ExtractCollectionDirective(ds)
    /\ op' = DirectiveCollection
    /\ UNCHANGED <<config, tm, typeRef, mapRet, schema, idx, files, errs, genRet,
                   typeName>>

NextExtract ==
    DoExtractSkip \/ DoExtractJavaName \/ DoExtractJavaType \/ DoExtractDeprecated
    \/ DoExtractAnnotations \/ DoExtractConstraint \/ DoExtractLombok
    \/ DoExtractCollection

SpecExtract == InitExtract /\ [][NextExtract]_vars

\* the occurrences of a directive on the element, in declaration order
Occurrences(directives, name) == SelectSeq(directives, LAMBDA d : d.Name = name)

\* the element with every occurrence of the directive after the first removed
FirstOnly(directives, name) ==
    IF Occurrences(directives, name) = <<>> THEN <<>>
    ELSE <<Occurrences(directives, name)[1]>>

\* C19: extraction returns, for the repeatable annotation directive, one
\* entry per occurrence in declaration order, and for every singleton
\* directive (skip, javaName, javaType, deprecated, constraint, collection,
\* lombok) the record of the first occurrence on the element only: a later
\* occurrence of the same directive never influences the extracted record.
C19_SingletonsTakeFirstOccurrence ==
    /\ op = DirectiveAnnotation
       => LET occurrences == Occurrences(arg, DirectiveAnnotation)
          IN /\ Len(ret) = Len(occurrences)
             /\ \A i \in 1..Len(ret) :
                   /\ ret[i].Value = GetArgumentString(occurrences[i], "value")
                   /\ ret[i].Imports = GetArgumentStringSlice(occurrences[i], "imports")
    /\ op = DirectiveSkip => ret = ExtractSkipDirective(FirstOnly(arg, op))
    /\ op = DirectiveJavaName => ret = ExtractJavaNameDirective(FirstOnly(arg, op))
    /\ op = DirectiveJavaType => ret = ExtractJavaTypeDirective(FirstOnly(arg, op))
    /\ op = DirectiveDeprecated => ret = ExtractDeprecatedDirective(FirstOnly(arg, op))
    /\ op = DirectiveConstraint => ret = ExtractConstraintDirective(FirstOnly(arg, op))
    /\ op = DirectiveLombok => ret = ExtractLombokDirective(FirstOnly(arg, op))
    /\ op = DirectiveCollection => ret = ExtractCollectionDirective(FirstOnly(arg, op))

----------------------------------------------------------------------------
(* Keyword escaping: EscapeJavaKeyword on identifiers, and the field names *)
(* of a generated class.                                                   *)

\* the reserved words, each also with a leading underscore, with a trailing
\* underscore and capitalized, and names that are no reserved word
Identifiers ==
    JavaKeywords
    \cup {"_" \o k : k \in JavaKeywords}
    \cup {k \o "_" : k \in JavaKeywords}
    \cup {capitalizeFirst(k) : k \in JavaKeywords}
    \cup {"", "_", "name", "userName", "user_name", "Do_", "_Do", "__class",
          "is_New", "NEW", "nonSealed", "non_sealed"}

\* the rename directives of a field: none, a reserved word, an escaped
\* one, a capitalized one, and an empty name
Renames ==
    {<<>>, <<JavaName("new")>>, <<JavaName("_new")>>, <<JavaName("New")>>,
     <<JavaName("")>>, <<JavaName(""), JavaName("class")>>}

\* an object type with the one field
Holder(field) == TypeDef("Holder", TypeKindObject, <<field>>, <<>>, <<>>, <<>>)

InitNaming ==
    /\ config \in {[DefaultConfig EXCEPT !.Java.Naming = g] : g \in Namings}
    /\ tm = NewTypeMapper(config)
    /\ op = "NewNamingHelper"
    /\ typeRef = <<>>
    /\ mapRet = NoMapRet
    /\ schema = <<>>
    /\ idx = 0
    /\ files = <<>>
    /\ errs = <<>>
    /\ genRet = NoGenRet
    /\ typeName = ""
    /\ arg = <<>>
    /\ ret = <<>>

\* EscapeJavaKeyword(name)
DoEscapeJavaKeyword ==
    /\ op = "NewNamingHelper"
    /\ \E name \in Identifiers :
          /\ arg' = name
          /\ ret' = EscapeJavaKeyword(name)
    /\ op' = "EscapeJavaKeyword"
    /\ UNCHANGED <<config, tm, typeRef, mapRet, schema, idx, files, errs, genRet,
                   typeName>>

\* ClassGenerator.Generate on a type with one field
DoGenerateField ==
    /\ op = "NewNamingHelper"
    /\ \E name \in Identifiers \ {""} : \E directives \in Renames :
          \E td \in {Holder(FieldDef(name, <<NamedRef("String", FALSE)>>,
                                      directives))} :
             /\ arg' = td
             /\ ret' = ClassGenerate(NewContext(config, schema), td, LombokKeys)
    /\ op' = "GenerateField"
    /\ UNCHANGED <<config, tm, typeRef, mapRet, schema, idx, files, errs, genRet,
                   typeName>>

\* the characters identifiers are built from: a lower-case letter, an
\* upper-case letter, the underscore and a digit
NameChars == {"a", "B", "_", "1"}

\* the identifiers of at most n characters that do not start with a digit
RECURSIVE NamesOfLen(_)
NamesOfLen(n) ==
    IF n = 0 THEN {""}
    ELSE NamesOfLen(n - 1) \cup
         {s \o c : s \in {t \in NamesOfLen(n - 1) : Len(t) = n - 1},
                   c \in IF n = 1 THEN NameChars \ {"1"} ELSE NameChars}

\* toCamelCase(s)
DoToCamelCase ==
    /\ op = "NewNamingHelper"
    /\ \E name \in NamesOfLen(MaxNameLen) \cup Identifiers :
          /\ arg' = name
          /\ ret' = toCamelCase(name)
    /\ op' = "toCamelCase"
    /\ UNCHANGED <<config, tm, typeRef, mapRet, schema, idx, files, errs, genRet,
                   typeName>>

NextNaming == DoEscapeJavaKeyword \/ DoGenerateField \/ DoToCamelCase

SpecNaming == InitNaming /\ [][NextNaming]_vars

\* C20: keyword escaping is idempotent and never produces a reserved word:
\* escaping an escaped identifier returns it unchanged and an escaped
\* identifier is no reserved word; and no field name written into a
\* generated class is a reserved word, also when the name comes from a
\* rename directive or from case conversion.
C20_EscapingIsIdempotentAndNeverReserved ==
    /\ op = "EscapeJavaKeyword"
       => /\ EscapeJavaKeyword(ret) = ret
          /\ ~IsJavaKeyword(ret)
    /\ op = "GenerateField"
       => /\ ret.err = NoError
          /\ Len(LinesOf(ret.text, "field")) = 1
          /\ ~IsJavaKeyword(LinesOf(ret.text, "field")[1][2])

\* the field New under snake case, renamed to the reserved word new, is
\* written as _new
C20_Witness ==
    /\ op = "GenerateField"
    /\ config.Java.Naming.FieldCase = FieldCaseSnake
    /\ arg.Fields[1].Name = "New"
    /\ arg.Fields[1].Directives = <<JavaName("new")>>
    /\ LinesOf(ret.text, "field")[1][2] = "_new"

\* C21: conversion to camelCase reaches a fixed point in one step: for every
\* identifier built from letters, digits and underscores, converting the
\* converted identifier again returns it unchanged.
C21_CamelCaseIsIdempotent ==
    op = "toCamelCase" => toCamelCase(ret) = ret

\* C22: each per-type generator is a pure function of the configuration,
\* the schema and the type definition: generating the same type twice with
\* the same configuration yields identical text, including the order of
\* the emitted Lombok annotations.
C22_GenerationIsDeterministic ==
    op = "GenerateTwice" => ret[1] = ret[2]

\* C23: no result of MapType or MapFieldType, for any reference, directive
\* set, configuration override and nullability policy, has both
\* is-primitive and is-optional set.
C23_PrimitiveExcludesOptional ==
    (op \in {"MapType", "MapFieldType"} /\ mapRet.err = NoError)
    => ~(mapRet.res.IsPrimitive /\ mapRet.res.IsOptional)

\* both flags occur: a nullable Int field under the optional policy is
\* optional and not primitive
C23_Witness ==
    /\ op = "MapFieldType"
    /\ config.Java.NullableHandling = NullableOptional
    /\ arg.Type = <<NamedRef("Int", FALSE)>>
    /\ arg.Directives = <<>>
    /\ mapRet.res.IsOptional
    /\ ~mapRet.res.IsPrimitive

----------------------------------------------------------------------------
(* cmd/gql2j: main from the Generate call on, with the output writer.      *)

OutputError == "OUTPUT"

\* Writer.WriteAllWithResult(files) of a writer with overwrite set, as
\* NewWriter builds it: mkdirFails says that MkdirAll returns an error,
\* failing holds the indices of the files os.WriteFile cannot write
WriteAllWithResult(written, mkdirFails, failing) ==
    IF mkdirFails
    THEN [Written |-> <<>>, Skipped |-> <<>>, Errors |-> <<OutputError>>]
    ELSE [Written |-> [i \in 1..Len(SelectSeq([j \in 1..Len(written) |-> j],
                                               LAMBDA j : j \notin failing)) |->
                          written[SelectSeq([j \in 1..Len(written) |-> j],
                                            LAMBDA j : j \notin failing)[i]].FileName],
          Skipped |-> <<>>,
          Errors |-> [i \in 1..Cardinality(failing \cap (1..Len(written))) |->
                         OutputError]]

GetStats(generated, errors) ==
    [TotalTypes |-> Len(generated),
     Classes |-> Len(SelectSeq(generated, LAMBDA f :
                    f.TypeDef.Kind \in {TypeKindObject, TypeKindInputObject})),
     Interfaces |-> Len(SelectSeq(generated, LAMBDA f :
                    f.TypeDef.Kind \in {TypeKindInterface, TypeKindUnion})),
     Enums |-> Len(SelectSeq(generated, LAMBDA f : f.TypeDef.Kind = TypeKindEnum)),
     ErrorCount |-> Len(errors)]

InitMain ==
    /\ config \in {[DefaultConfig EXCEPT !.Java.Naming = g] : g \in Namings}
    /\ tm = NewTypeMapper(config)
    /\ op = "NewGenerator"
    /\ typeRef = <<>>
    /\ mapRet = NoMapRet
    /\ schema = <<>>
    /\ idx = 0
    /\ files = <<>>
    /\ errs = <<>>
    /\ genRet = NoGenRet
    /\ typeName = ""
    /\ arg = <<>>
    /\ ret = <<>>

\* main after Generate has returned: the error of Generate is printed and
\* the run goes on; the files are written, the statistics are taken from
\* the files and the errors of the writer, and the exit status is 1 when
\* the error count is positive
MainWrite ==
    /\ op = "GenerateDone"
    /\ \E mkdirFails \in BOOLEAN :
       \E failing \in (IF mkdirFails THEN {{}} ELSE SUBSET (1..Len(genRet.files))) :
       \E result \in {WriteAllWithResult(genRet.files, mkdirFails, failing)} :
       \E stats \in {GetStats(genRet.files, result.Errors)} :
          /\ arg' = [mkdirFails |-> mkdirFails, failing |-> failing]
          /\ ret' = [result |-> result, stats |-> stats,
                     exit |-> IF stats.ErrorCount > 0 THEN 1 ELSE 0]
    /\ op' = "main"
    /\ UNCHANGED <<config, tm, typeRef, mapRet, schema, idx, files, errs, genRet,
                   typeName>>

NextMain == GenerateBegin \/ GenerateStep \/ GenerateReturn \/ MainWrite

SpecMain == InitMain /\ [][NextMain]_vars

GeneratedClass ==
    /\ op = "GenerateTwice"
    /\ arg.Kind \in {TypeKindObject, TypeKindInputObject}
    /\ ret[1].file # <<>>

\* the imports the class needs: those of the type mapping of every retained
\* field, of the annotations on every retained field and of the annotations
\* on the type
RequiredImports(td) ==
    LET ctx == NewContext(config, <<td>>)
        kept == SelectSeq(td.Fields, KeptField)
        values == SelectSeq(td.EnumValues, LAMBDA v : ~CarriesSkip(v.Directives))
    IN IF td.Kind \in {TypeKindObject, TypeKindInputObject}
       THEN UNION {Range(MapFieldType(ctx.TypeMapper, kept[i]).res.Imports)
                   \cup Range(ValidationGenerateFieldAnnotations(
                                 config.Features.Validation, kept[i],
                                 kept[i].Type # <<>> /\ kept[i].Type[1].NonNull).imports)
                   \cup Range(extractAnnotations(kept[i].Directives).imports) :
                   i \in 1..Len(kept)}
            \cup Range(LombokGenerateTypeAnnotations(config.Features.Lombok,
                                                     td.Directives, LombokKeys).imports)
            \cup Range(extractAnnotations(td.Directives).imports)
       ELSE IF td.Kind = TypeKindInterface
       THEN UNION {Range(MapFieldType(ctx.TypeMapper, kept[i]).res.Imports) :
                   i \in 1..Len(kept)}
            \cup Range(extractAnnotations(td.Directives).imports)
       ELSE IF td.Kind = TypeKindEnum
       THEN UNION {Range(extractAnnotations(values[i].Directives).imports) :
                   i \in 1..Len(values)}
            \cup Range(extractAnnotations(td.Directives).imports)
       ELSE {}

\* imp names a class directly in the package: the package, a dot, and a
\* name without a dot
DirectlyIn(package, imp) ==
    /\ package # ""
    /\ Len(imp) > Len(package) + 1
    /\ SubSeq(imp, 1, Len(package) + 1) = package \o "."
    /\ ~Contains(SubSeq(imp, Len(package) + 2, Len(imp)), ".")

\* the positions of the lines of a kind in a text
Positions(text, kind) == {i \in 1..Len(text) : text[i][1] = kind}

\* C25: the import block of a generated class equals the set of imports
\* required by the retained fields' type mappings and by the emitted
\* type-level and field-level annotations, minus empty entries, direct
\* java.lang classes and classes of the unit's own package; each import
\* appears once, in ascending order, after the package declaration and
\* before the type declaration and its annotations, and fields removed by
\* skip contribute no import.
C25_ImportBlockIsRequiredImports ==
    GeneratedClass
    => LET text == ret[1].file[1].Content
           imports == LinesOf(text, "import")
       IN /\ {imports[i][2] : i \in 1..Len(imports)} =
               {imp \in RequiredImports(arg) :
                   /\ imp # ""
                   /\ ~DirectlyIn("java.lang", imp)
                   /\ ~DirectlyIn(config.Output.Package, imp)}
          /\ \A i \in 1..(Len(imports) - 1) :
                StringLess(imports[i][2], imports[i + 1][2])
          /\ \A i \in Positions(text, "import") :
                /\ \A j \in Positions(text, "package") : j < i
                /\ \A j \in Positions(text, "class") \cup Positions(text, "annotation")
                           \cup Positions(text, "field") : i < j

\* the class with the import fields under javax validation: the shared
\* import once, nothing from the skipped and the introspection field, and
\* the java.lang.annotation class kept
C25_Witness ==
    /\ GeneratedClass
    /\ arg.Name = "Order"
    /\ config.Features.Validation.Enabled
    /\ config.Features.Validation.Package = ValidationJavax
    /\ config.Features.Validation.NotNullOnNonNull
    /\ LET imports == LinesOf(ret[1].file[1].Content, "import")
       IN [i \in 1..Len(imports) |-> imports[i][2]] =
            <<"jakarta.persistence.Column", "java.lang.annotation.Target",
              "java.time.LocalDateTime", "java.util.ArrayList", "java.util.List",
              "javax.validation.constraints.Email",
              "javax.validation.constraints.NotNull",
              "javax.validation.constraints.Size">>

\* the import lines of a generated unit
ImportsOf(file) ==
    {file.Content[j][2] : j \in Positions(file.Content, "import")}

C27_CollectionOverrideKeepsElementImports ==
    (/\ op = "MapFieldType"
     /\ ExtractCollectionDirective(arg.Directives) # <<>>
     /\ ExtractJavaTypeDirective(arg.Directives) = <<>>
     /\ arg.Type # <<>>
     /\ IsList(arg.Type[1])
     /\ ~IsList(arg.Type[1].Elem[1])
     /\ mapRet.err = NoError)
    => Range(mapTypeInternal(tm, arg.Type[1].Elem[1], FALSE).res.Imports)
          \subseteq Range(mapRet.res.Imports)

\* C28: with Lombok enabled, a generated class with at least one retained
\* field gets its accessors from exactly one source, also under a per-type
\* lombok directive: a manual getter and setter per retained field are
\* emitted if and only if the Lombok annotations emitted on the class,
\* after exclude and include, contain neither @Data nor both @Getter and
\* @Setter; otherwise no manual accessor is emitted.
C28_AccessorsFollowEmittedAnnotations ==
    (/\ Generated({TypeKindObject, TypeKindInputObject})
     /\ config.Features.Lombok.Enabled
     /\ LinesOf(genRet.files[1].Content, "field") # <<>>)
    => LET content == genRet.files[1].Content
           emitted == Range(LombokGenerateTypeAnnotations(
                                config.Features.Lombok,
                                genRet.files[1].TypeDef.Directives,
                                LombokKeys).annotations)
           covered == \/ "@Data" \in emitted
                      \/ {"@Getter", "@Setter"} \subseteq emitted
           retained == Len(LinesOf(content, "field"))
       IN /\ Len(LinesOf(content, "getter")) = (IF covered THEN 0 ELSE retained)
          /\ Len(LinesOf(content, "setter")) = (IF covered THEN 0 ELSE retained)

====
